---- MODULE Spec2Model ----
(***************************************************************************)
(* TCDS sidecar: the expiring token cache, the credential endpoints that   *)
(* fill it by running browser extractors, the AgencyZoom SMS delivery and  *)
(* the Delphi reply-polling loop, as state machines.                       *)
(***************************************************************************)
EXTENDS Integers, Sequences, FiniteSets, TLC

VARIABLES
    now,          \* datetime.now(), in hours
    token_cache,  \* main.py token_cache: key -> entry, or Absent when the key is not in the dict
    lastOp,       \* the last call of get_cached / set_cached / clear_cache and what it returned
    prevOp,       \* the call before it
    creds,        \* per provider: the environment supplies its e-mail and password
    target,       \* the provider whose endpoints the clients of this run call
    alert_store,  \* main.py alert_store: the alerts by the number N of their id "alert-N"
    pc,           \* per request: where its handler is suspended
    req,          \* per request: the handler's parameters and locals
    sent,         \* the response this step sends, with the request it answers (else NoReq)
    ext,          \* per extractor instance: self.browser, self.playwright (0 is None)
    open          \* the browsers that are running; request r's driver and browser are r

cacheVars == <<now, token_cache, lastOp, prevOp>>
reqVars == <<creds, target, alert_store, pc, req, sent, ext, open>>
vars == <<now, token_cache, lastOp, prevOp, creds, target, alert_store, pc, req, sent, ext, open>>

\* ------------------------------------------------------------------ bounds
MaxTime == 2
MaxPayload == 2

\* ------------------------------------------------------------- the cache
Keys == {"agencyzoom", "rpr", "mmi"}

\* key not in token_cache
Absent == [absent |-> TRUE]
\* Python's None, as a return value
None == [none |-> TRUE]

HoursPerDay == 24

\* datetime.isoformat(): the date part and the time part of the instant
isoformat(t) == <<t \div HoursPerDay, t % HoursPerDay>>

\* datetime.fromisoformat(): the instant of a date part and a time part
fromisoformat(s) == s[1] * HoursPerDay + s[2]

\* get_cached without its del token_cache[key]
get_cached_del_Keep(cache, key, t) == cache

\* get_cached without its expiry test
get_cached_ret_NoExpiry(cache, key, t) ==
    IF cache[key] # Absent THEN cache[key] ELSE None

\* get_cached's return value
get_cached_ret(cache, key, t) ==
    IF cache[key] # Absent /\ fromisoformat(cache[key].expiresAt) > t
    THEN cache[key]
    ELSE None

\* token_cache after get_cached: an expired entry is deleted
get_cached_del(cache, key, t) ==
    IF cache[key] # Absent /\ ~(fromisoformat(cache[key].expiresAt) > t)
    THEN [cache EXCEPT ![key] = Absent]
    ELSE cache

\* a set_cached that updates the entry it finds: the old fields stay unless data has them
set_cached_Merge(cache, key, data, ttl_hours, t) ==
    [cache EXCEPT ![key] =
        [data |-> IF @ = Absent THEN data
                  ELSE [f \in DOMAIN @.data \cup DOMAIN data |->
                           IF f \in DOMAIN data THEN data[f] ELSE @.data[f]],
         expiresAt |-> isoformat(t + ttl_hours)]]

\* a set_cached whose time to live is fixed inside the cache
set_cached_FixedTTL(cache, key, data, ttl_hours, t) ==
    [cache EXCEPT ![key] = [data |-> data, expiresAt |-> isoformat(t + 23)]]

\* token_cache after set_cached: {**data, "expiresAt": (now + ttl).isoformat()}
set_cached(cache, key, data, ttl_hours, t) ==
    [cache EXCEPT ![key] = [data |-> data, expiresAt |-> isoformat(t + ttl_hours)]]

\* a clear_cache that leaves the RPR token in place
clear_cache_KeepRpr(cache) == [k \in Keys |-> IF k = "rpr" THEN cache[k] ELSE Absent]

\* token_cache after clear_cache
clear_cache(cache) == [k \in Keys |-> Absent]

NoOp == [op |-> "none"]
OpGet(key, t, ret, deleted) ==
    [op |-> "get", key |-> key, at |-> t, ret |-> ret, deleted |-> deleted]
OpSet(key, t, data, ttl) == [op |-> "set", key |-> key, at |-> t, data |-> data, ttl |-> ttl]
OpClear(t) == [op |-> "clear", at |-> t]

\* ------------------------------------------- the cache helpers on their own
Payloads == {[success |-> TRUE, sid |-> i] : i \in 1..MaxPayload} \cup {[token |-> 1]}
TTLs == {0, 1, 2}
HarnessKeys == {"agencyzoom", "rpr"}

Requests == {1, 2}
NoReq == [endpoint |-> "none"]

\* an extractor after __init__
NewExtractor == [browser |-> 0, playwright |-> 0, cached_cookies |-> 0]
\* DelphiProxy after __init__; launched counts the browsers it has launched, browser is
\* self.browser (0 is None): the browsers it launches are numbered from 1
NewDelphiProxy ==
    [is_initialized |-> FALSE, chat_frame |-> FALSE, launched |-> 0, browser |-> 0]
\* the instances lifespan() creates
Instances(proxy) == [p \in Keys \cup {"delphi"} |-> IF p = "delphi" THEN proxy ELSE NewExtractor]

ReqInit ==
    /\ pc = [r \in Requests |-> "idle"]
    /\ req = [r \in Requests |-> NoReq]
    /\ sent = NoReq
    /\ ext = Instances(NewDelphiProxy)
    /\ open = {}

CacheInit ==
    /\ now = 0
    /\ token_cache = [k \in Keys |-> Absent]
    /\ lastOp = NoOp
    /\ prevOp = NoOp
    /\ creds = [k \in Keys |-> TRUE]
    /\ target = "agencyzoom"
    /\ alert_store = <<>>
    /\ ReqInit

CacheGet(key) ==
    /\ lastOp' = OpGet(key, now, get_cached_ret(token_cache, key, now),
                       get_cached_del(token_cache, key, now) # token_cache)
    /\ prevOp' = lastOp
    /\ token_cache' = get_cached_del(token_cache, key, now)
    /\ UNCHANGED <<now, reqVars>>

CacheSet(key, data, ttl) ==
    /\ token_cache' = set_cached(token_cache, key, data, ttl, now)
    /\ lastOp' = OpSet(key, now, data, ttl)
    /\ prevOp' = lastOp
    /\ UNCHANGED <<now, reqVars>>

CacheClear ==
    /\ token_cache' = clear_cache(token_cache)
    /\ lastOp' = OpClear(now)
    /\ prevOp' = lastOp
    /\ UNCHANGED <<now, reqVars>>

Tick ==
    /\ now < MaxTime
    /\ now' = now + 1
    /\ sent' = NoReq
    /\ UNCHANGED <<token_cache, lastOp, prevOp, creds, target, alert_store, pc, req, ext, open>>

CacheNext ==
    \/ \E k \in HarnessKeys : CacheGet(k)
    \/ \E k \in HarnessKeys, v \in Payloads, t \in TTLs : CacheSet(k, v, t)
    \/ CacheClear
    \/ Tick

CacheSpec == CacheInit /\ [][CacheNext]_vars

\* this step is a call of get_cached(key) / set_cached(key, ...)
IsGetStep(key) ==
    lastOp'.op = "get" /\ lastOp'.key = key /\ <<lastOp', prevOp'>> # <<lastOp, prevOp>>
IsSetStep(key) ==
    lastOp'.op = "set" /\ lastOp'.key = key /\ <<lastOp', prevOp'>> # <<lastOp, prevOp>>

\* C1: for every key k and TTL t > 0, set_cached(k, v, t) followed immediately by
\* get_cached(k) returns v; a get_cached(k) made once the time is past the entry's expiry
\* returns None and leaves k out of the cache; k stays out of the cache until a
\* set_cached(k), so every later get_cached(k) before one returns None as well.
C1_SetGetExpire ==
    [][\A k \in Keys :
        /\ (lastOp.op = "set" /\ lastOp.key = k /\ lastOp.ttl > 0
                /\ IsGetStep(k) /\ lastOp'.at = lastOp.at)
            => (lastOp'.ret # None /\ lastOp'.ret.data = lastOp.data)
        /\ (IsGetStep(k) /\ token_cache[k] # Absent
                /\ now > fromisoformat(token_cache[k].expiresAt))
            => (lastOp'.ret = None /\ token_cache'[k] = Absent)
        /\ (IsGetStep(k) /\ token_cache[k] = Absent) => lastOp'.ret = None
        /\ (token_cache[k] = Absent /\ ~IsSetStep(k)) => token_cache'[k] = Absent
      ]_vars

\* an expired entry was read and removed, and a later read of the key found nothing
C1_Witness ==
    /\ prevOp.op = "get" /\ prevOp.deleted /\ prevOp.ret = None
    /\ lastOp.op = "get" /\ lastOp.key = prevOp.key /\ lastOp.ret = None
    /\ lastOp.at > prevOp.at

\* ------------------------------------------------ the credential endpoints
\* /agencyzoom/session, /rpr/token, /mmi/token (one handler per provider, the same code
\* up to the key, the success test, the stored data and the TTL) and /agencyzoom/sms,
\* served concurrently on one event loop: a handler runs until its next await.

\* set_cached's default ttl_hours, used for agencyzoom and mmi
DefaultTTL == 23
\* ttl_hours=1 of get_rpr_token
RprTTL == 1
\* handlers that store their result with a time to live of zero hours
TTL_Zero(p) == 0

TTL(p) == IF p = "rpr" THEN RprTTL ELSE DefaultTTL

\* result.get("success") of get_agencyzoom_session / get_mmi_token, result.get("token")
\* of get_rpr_token
\* a success test that looks for the field without reading it
Succeeded_Any(p, result) ==
    IF p = "rpr" THEN "token" \in DOMAIN result ELSE "success" \in DOMAIN result

Succeeded(p, result) ==
    IF p = "rpr" THEN "token" \in DOMAIN result
    ELSE "success" \in DOMAIN result /\ result.success

\* what the handler stores: the result itself, or {"token": result["token"]}
StoredData(p, result) == IF p = "rpr" THEN [token |-> result.token] ELSE result

\* extract()'s success result for the session harvested with browser n
ExtractOk(p, n) == IF p = "rpr" THEN [token |-> n] ELSE [success |-> TRUE, sid |-> n]
\* extract()'s failure results
ExtractFail(p, why) == IF p = "rpr" THEN [error |-> why] ELSE [success |-> FALSE, error |-> why]
BodyFailures == {"LoginRejected"}

\* a cache hit that is not flagged as one
CachedResponse_NotFlagged(cached) ==
    [success |-> TRUE, data |-> cached, fromCache |-> FALSE, expiresAt |-> cached.expiresAt]

\* TokenResponse / SMSResponse
CachedResponse(cached) ==
    [success |-> TRUE, data |-> cached, fromCache |-> TRUE, expiresAt |-> cached.expiresAt]
FreshResponse(data, expiresAt) ==
    [success |-> TRUE, data |-> data, fromCache |-> FALSE, expiresAt |-> expiresAt]
ErrorResponse(result) ==
    [success |-> FALSE, error |-> IF "error" \in DOMAIN result THEN result.error ELSE "Unknown error"]
\* the /agencyzoom/sms handler reporting every delivery as sent
SmsResponse_AlwaysSuccess(result) ==
    [success |-> TRUE, error |-> IF "error" \in DOMAIN result THEN result.error ELSE "None"]

SmsResponse(result) ==
    [success |-> IF "success" \in DOMAIN result THEN result.success ELSE FALSE,
     error |-> IF "error" \in DOMAIN result THEN result.error ELSE "None"]

\* where send_sms() is suspended after its page opened the login form ("running")
SmsStages == {"password", "submitted", "messages", "add_menu", "compose", "message", "send",
              "settle", "checked"}

\* where extract() is suspended after its page opened the login form ("running")
ExtractStages == {"x_password", "x_submit", "x_postauth", "x_harvest", "x_harvested"}

\* where a handler is suspended inside extract() / send_sms()
InCall == {"starting", "launching", "running", "closing", "stopping"} \cup SmsStages
              \cup ExtractStages

\* steps is the log of what the call has done so far, deleted whether the handler's
\* cache check removed an expired entry
NewReq(endpoint, p, force, steps) ==
    [endpoint |-> endpoint, provider |-> p, force_refresh |-> force, n |-> 0, result |-> None,
     steps |-> steps, deleted |-> FALSE]

Step(name) == [step |-> name]

\* the response sent for request r, whose parameters and locals are q
Sent(r, q, response) ==
    [r |-> r, endpoint |-> q.endpoint, provider |-> q.provider,
     force_refresh |-> q.force_refresh, n |-> q.n, steps |-> q.steps,
     deleted |-> q.deleted, response |-> response]

\* what a handler's first step emits when it goes on to its browser call: its cache check
\* returned nothing, having deleted an expired entry or not
Miss(r, q, deleted) ==
    [r |-> r, endpoint |-> q.endpoint, provider |-> q.provider,
     force_refresh |-> q.force_refresh, deleted |-> deleted]

\* get_agencyzoom_session / get_rpr_token / get_mmi_token up to the first await of
\* extract(): the cache check, then extract()'s credentials check, then
\* async_playwright().start()
get_session_begin(r, p, force) ==
    /\ pc[r] = "idle"
    /\ p = target
    /\ LET cached == IF force THEN None ELSE get_cached_ret(token_cache, p, now)
           cache1 == IF force THEN token_cache ELSE get_cached_del(token_cache, p, now)
           new == [NewReq("session", p, force, <<>>) EXCEPT !.deleted = cache1 # token_cache]
       IN /\ token_cache' = cache1
          /\ IF cached # None
             THEN /\ sent' = Sent(r, new, CachedResponse(cached))
                  /\ UNCHANGED <<pc, req>>
             ELSE IF ~creds[p]
             THEN /\ sent' = Sent(r, new, ErrorResponse(ExtractFail(p, "CredentialsMissing")))
                  /\ UNCHANGED <<pc, req>>
             ELSE /\ req' = [req EXCEPT ![r] = new]
                  /\ pc' = [pc EXCEPT ![r] = "starting"]
                  /\ sent' = Miss(r, new, cache1 # token_cache)
    /\ UNCHANGED <<now, lastOp, prevOp, creds, target, alert_store, ext, open>>

\* send_agencyzoom_sms up to the first await of send_sms(): the extractor is primed from
\* the cache, then send_sms()'s credentials check, then async_playwright().start()
send_agencyzoom_sms_begin(r) ==
    /\ pc[r] = "idle"
    /\ target = "agencyzoom"
    /\ LET p == "agencyzoom"
           cached == get_cached_ret(token_cache, p, now)
           cache1 == get_cached_del(token_cache, p, now)
           new == [NewReq("sms", p, FALSE, IF cached # None THEN <<Step("prime")>> ELSE <<>>)
                     EXCEPT !.deleted = cache1 # token_cache]
           missing == [success |-> FALSE, error |-> "CredentialsMissing"]
       IN /\ token_cache' = cache1
          /\ ext' = IF cached # None
                    THEN [ext EXCEPT ![p].cached_cookies = cached.data.sid]
                    ELSE ext
          /\ IF ~creds[p]
             THEN /\ sent' = Sent(r, new, SmsResponse(missing))
                  /\ UNCHANGED <<pc, req>>
             ELSE /\ req' = [req EXCEPT ![r] = new]
                  /\ pc' = [pc EXCEPT ![r] = "starting"]
                  /\ sent' = Miss(r, new, cache1 # token_cache)
    /\ UNCHANGED <<now, lastOp, prevOp, creds, target, alert_store, open>>

\* self.playwright = await async_playwright().start(), then chromium.launch() is called
playwright_started(r) ==
    /\ pc[r] = "starting"
    /\ ext' = [ext EXCEPT ![req[r].provider].playwright = r]
    /\ req' = [req EXCEPT ![r].n = r]
    /\ pc' = [pc EXCEPT ![r] = "launching"]
    /\ sent' = NoReq
    /\ UNCHANGED <<cacheVars, creds, target, alert_store, open>>

\* self.browser = await ...launch(), then the context and the page of that browser
browser_launched(r) ==
    /\ pc[r] = "launching"
    /\ open' = open \cup {req[r].n}
    /\ ext' = [ext EXCEPT ![req[r].provider].browser = req[r].n]
    /\ pc' = [pc EXCEPT ![r] = "running"]
    /\ sent' = NoReq
    /\ UNCHANGED <<cacheVars, creds, target, alert_store, req>>

\* a handler that drops the provider's entry when the extraction failed
Respond_DropOnFailure(r, result) ==
    LET p == req[r].provider
    IN IF req[r].endpoint = "sms"
       THEN /\ sent' = Sent(r, req[r], SmsResponse(result))
            /\ UNCHANGED cacheVars
       ELSE IF Succeeded(p, result)
       THEN LET cache1 == set_cached(token_cache, p, StoredData(p, result), TTL(p), now)
            IN /\ token_cache' = cache1
               /\ sent' = Sent(r, req[r],
                                FreshResponse(StoredData(p, result), cache1[p].expiresAt))
               /\ UNCHANGED <<now, lastOp, prevOp>>
       ELSE /\ sent' = Sent(r, req[r], ErrorResponse(result))
            /\ token_cache' = [token_cache EXCEPT ![p] = Absent]
            /\ UNCHANGED <<now, lastOp, prevOp>>

\* a handler whose response reads the expiry from the cache as it was before its own
\* set_cached
Respond_ReadBefore(r, result) ==
    LET p == req[r].provider
    IN IF req[r].endpoint = "sms"
       THEN /\ sent' = Sent(r, req[r], SmsResponse(result))
            /\ UNCHANGED cacheVars
       ELSE IF Succeeded(p, result)
       THEN /\ token_cache' = set_cached(token_cache, p, StoredData(p, result), TTL(p), now)
            /\ sent' = Sent(r, req[r],
                             FreshResponse(StoredData(p, result),
                                           IF token_cache[p] = Absent THEN None
                                           ELSE token_cache[p].expiresAt))
            /\ UNCHANGED <<now, lastOp, prevOp>>
       ELSE /\ sent' = Sent(r, req[r], ErrorResponse(result))
            /\ UNCHANGED cacheVars

\* the handler after extract() / send_sms() returned: the cache write and the response
Respond(r, result) ==
    LET p == req[r].provider
    IN IF req[r].endpoint = "sms"
       THEN /\ sent' = Sent(r, req[r], SmsResponse(result))
            /\ UNCHANGED cacheVars
       ELSE IF Succeeded(p, result)
       THEN LET cache1 == set_cached(token_cache, p, StoredData(p, result), TTL(p), now)
            IN /\ token_cache' = cache1
               /\ sent' = Sent(r, req[r],
                                FreshResponse(StoredData(p, result), cache1[p].expiresAt))
               /\ UNCHANGED <<now, lastOp, prevOp>>
       ELSE /\ sent' = Sent(r, req[r], ErrorResponse(result))
            /\ UNCHANGED cacheVars

\* a handler that calls extract() again when it returned a failure
AfterStop_Retry(r, result) ==
    /\ ext' = [ext EXCEPT ![req[r].provider].browser = 0, ![req[r].provider].playwright = 0]
    /\ IF req[r].endpoint = "sms" \/ Succeeded(req[r].provider, result)
       THEN /\ pc' = [pc EXCEPT ![r] = "idle"]
            /\ req' = [req EXCEPT ![r] = NoReq]
            /\ Respond(r, result)
       ELSE /\ pc' = [pc EXCEPT ![r] = "starting"]
            /\ req' = [req EXCEPT ![r] =
                          [NewReq(req[r].endpoint, req[r].provider, req[r].force_refresh,
                                  <<>>) EXCEPT !.deleted = req[r].deleted]]
            /\ sent' = NoReq
            /\ UNCHANGED cacheVars
    /\ UNCHANGED <<creds, target, alert_store, open>>

\* the end of finally: self.browser = None, self.playwright = None; the call returns
\* and its handler runs to its response
AfterStop(r, result) ==
    /\ ext' = [ext EXCEPT ![req[r].provider].browser = 0, ![req[r].provider].playwright = 0]
    /\ pc' = [pc EXCEPT ![r] = "idle"]
    /\ req' = [req EXCEPT ![r] = NoReq]
    /\ Respond(r, result)
    /\ UNCHANGED <<creds, target, alert_store, open>>

\* finally: if self.playwright: await self.playwright.stop(). Stopping a driver ends the
\* browser it launched.
AfterClose(r, result) ==
    LET pw == ext[req[r].provider].playwright
    IN IF pw # 0
       THEN /\ open' = open \ {pw}
            /\ req' = [req EXCEPT ![r].result = result]
            /\ pc' = [pc EXCEPT ![r] = "stopping"]
            /\ sent' = NoReq
            /\ UNCHANGED <<cacheVars, creds, target, alert_store, ext>>
       ELSE AfterStop(r, result)

\* finally: if self.browser: await self.browser.close()
Finally(r, result) ==
    LET b == ext[req[r].provider].browser
    IN IF b # 0
       THEN /\ open' = open \ {b}
            /\ req' = [req EXCEPT ![r].result = result]
            /\ pc' = [pc EXCEPT ![r] = "closing"]
            /\ sent' = NoReq
            /\ UNCHANGED <<cacheVars, creds, target, alert_store, ext>>
       ELSE AfterClose(r, result)

\* the body of extract() / send_sms() runs to a return; with its browser gone every
\* page call raises
body_returns(r) ==
    /\ pc[r] = "running"
    /\ req[r].n \in open
    /\ \E ok \in BOOLEAN, why \in BodyFailures :
        Finally(r, IF req[r].endpoint = "sms"
                   THEN (IF ok THEN [success |-> TRUE] ELSE [success |-> FALSE, error |-> why])
                   ELSE (IF ok THEN ExtractOk(req[r].provider, req[r].n)
                               ELSE ExtractFail(req[r].provider, why)))

\* an await raises: except Exception returns the failure result, through finally
body_raises(r) ==
    /\ pc[r] \in {"starting", "launching", "running"} \cup SmsStages \cup ExtractStages
    /\ Finally(r, IF req[r].endpoint = "sms" THEN [success |-> FALSE, error |-> "Exception"]
                   ELSE ExtractFail(req[r].provider, "Exception"))

browser_closed(r) ==
    /\ pc[r] = "closing"
    /\ AfterClose(r, req[r].result)

playwright_stopped(r) ==
    /\ pc[r] = "stopping"
    /\ AfterStop(r, req[r].result)

\* /cache/clear
clear_cache_endpoint ==
    /\ token_cache' = clear_cache(token_cache)
    /\ sent' = NoReq
    /\ UNCHANGED <<now, lastOp, prevOp, creds, target, alert_store, pc, req, ext, open>>

\* the providers whose token endpoint is called
Served == {"agencyzoom", "rpr", "mmi"}

\* the environments: every credential supplied, or AgencyZoom's missing
CredConfigs == {[k \in Keys |-> TRUE], [k \in Keys |-> k # "agencyzoom"]}

Init ==
    /\ now = 0
    /\ token_cache = [k \in Keys |-> Absent]
    /\ lastOp = NoOp
    /\ prevOp = NoOp
    /\ creds \in CredConfigs
    /\ target \in Served
    /\ alert_store = <<>>
    /\ ReqInit

Next ==
    \/ \E r \in Requests, p \in Served, force \in BOOLEAN : get_session_begin(r, p, force)
    \/ \E r \in Requests : send_agencyzoom_sms_begin(r)
    \/ \E r \in Requests : playwright_started(r)
    \/ \E r \in Requests : browser_launched(r)
    \/ \E r \in Requests : body_returns(r)
    \/ \E r \in Requests : body_raises(r)
    \/ \E r \in Requests : browser_closed(r)
    \/ \E r \in Requests : playwright_stopped(r)
    \/ clear_cache_endpoint
    \/ Tick

Spec == Init /\ [][Next]_vars

IsResponse(m) == "response" \in DOMAIN m
FromCache(m) == IsResponse(m) /\ m.response.success /\ "fromCache" \in DOMAIN m.response
                    /\ m.response.fromCache
\* this step is the first step of a handler, which reads the cache unless force_refresh
IsCacheRead(p) ==
    /\ sent' # NoReq /\ pc[sent'.r] = "idle" /\ sent'.provider = p
    /\ ~sent'.force_refresh

\* C2: no get_cached returns an entry whose expiresAt is not strictly later than the
\* current time, so a response served from the cache carries an unexpired entry; and a
\* get_cached that finds an expired entry removes it in the same call: after a handler's
\* cache check the key is absent or unexpired.
C2_NoStaleRead ==
    [][\A p \in Keys :
        /\ (FromCache(sent') /\ IsCacheRead(p))
            => /\ token_cache[p] # Absent
               /\ sent'.response.data = token_cache[p]
               /\ fromisoformat(sent'.response.expiresAt) > now
               /\ fromisoformat(sent'.response.data.expiresAt) > now
        /\ IsCacheRead(p)
            => \/ token_cache'[p] = Absent
               \/ fromisoformat(token_cache'[p].expiresAt) > now
        /\ (IsCacheRead(p) /\ token_cache[p] # Absent
                /\ ~(fromisoformat(token_cache[p].expiresAt) > now))
            => (token_cache'[p] = Absent /\ ~FromCache(sent'))
      ]_vars

\* a handler's cache check found an expired entry, removed it and went on to extract
C2_Witness ==
    /\ sent # NoReq /\ ~IsResponse(sent) /\ sent.deleted
    /\ token_cache[sent.provider] = Absent
    /\ pc[sent.r] = "starting"

\* C3: single-flight: requests for the same uncached provider that arrive concurrently
\* run one extract() between them, so no two token requests that missed the cache are
\* inside extract() for the same provider at once.
C3_SingleFlight ==
    \A r1, r2 \in Requests :
        (/\ r1 # r2
         /\ pc[r1] \in InCall /\ pc[r2] \in InCall
         /\ req[r1].endpoint = "session" /\ req[r2].endpoint = "session"
         /\ ~req[r1].force_refresh /\ ~req[r2].force_refresh)
        => req[r1].provider # req[r2].provider

\* C4: per-provider mutual exclusion: at most one extract() or send_sms() call is in
\* progress on a provider's extractor at a time.
C4_MutualExclusion ==
    \A p \in Keys : Cardinality({r \in Requests : pc[r] \in InCall /\ req[r].provider = p}) <= 1

\* C5: from the moment a refresh of a provider's session starts until the new session is
\* stored, no request is answered with the old session from the cache.
C5_InvalidateBeforeRefresh ==
    FromCache(sent) =>
        ~\E r \in Requests :
            /\ pc[r] \in InCall
            /\ req[r].endpoint = "session"
            /\ req[r].provider = sent.provider
            /\ req[r].force_refresh

\* --------------------------------------- one /agencyzoom/sms delivery, step by step
\* send_sms() after its page is open. What the page shows is the environment's choice
\* at each step.

MaxIndicators == 2

\* the selectors of a ladder, in the order they are tried
Selectors == 1..4
\* the first selector of the ladder that finds an element, 0 when none does
FirstMatch(present) ==
    IF present = {} THEN 0 ELSE CHOOSE i \in present : \A j \in present : i <= j

\* the elements matching ".alert-danger, .toast-error, .error-message" in document
\* order, each visible or not
Indicators == UNION {[1..n -> BOOLEAN] : n \in 0..MaxIndicators}
\* page.query_selector(): the first matching element, 0 when there is none
query_selector(els) == IF Len(els) = 0 THEN 0 ELSE 1

Failure(why) == [success |-> FALSE, error |-> why]

\* send_sms() goes on to its next await, having done step s
Continue(r, s, stage) ==
    /\ req' = [req EXCEPT ![r].steps = Append(@, s)]
    /\ pc' = [pc EXCEPT ![r] = stage]
    /\ sent' = NoReq
    /\ UNCHANGED <<cacheVars, creds, target, alert_store, ext, open>>

InSms(r, stage) == pc[r] = stage /\ req[r].endpoint = "sms" /\ req[r].n \in open

\* page.goto(login), then the e-mail ladder (wait_for_selector) and email_field.fill
sms_email_field(r) ==
    /\ InSms(r, "running")
    /\ \E present \in SUBSET Selectors :
        IF FirstMatch(present) = 0
        THEN Finally(r, Failure("Could not find email field"))
        ELSE Continue(r, [step |-> "email", selector |-> FirstMatch(present)], "password")

\* the password ladder (query_selector), password_field.fill, press Enter, sleep
sms_password_field(r) ==
    /\ InSms(r, "password")
    /\ \E present \in SUBSET Selectors :
        IF FirstMatch(present) = 0
        THEN Finally(r, Failure("Could not find password field"))
        ELSE Continue(r, [step |-> "login", selector |-> FirstMatch(present)], "submitted")

\* if "login" in page.url.lower(); else page.goto(messages)
sms_login_check(r) ==
    /\ InSms(r, "submitted")
    /\ \E on_login_page \in BOOLEAN :
        IF on_login_page
        THEN Finally(r, Failure("Login failed"))
        ELSE Continue(r, Step("goto_messages"), "messages")

\* Step 1: click "Add"
sms_click_add(r) ==
    /\ InSms(r, "messages")
    /\ \E add_clicked \in BOOLEAN :
        IF ~add_clicked
        THEN Finally(r, Failure("Could not find Add button"))
        ELSE Continue(r, Step("add"), "add_menu")

\* Step 2: click "Send a Text"
sms_click_send_a_text(r) ==
    /\ InSms(r, "add_menu")
    /\ \E send_text_clicked \in BOOLEAN :
        IF ~send_text_clicked
        THEN Finally(r, Failure("Could not find 'Send a Text' option"))
        ELSE Continue(r, Step("send_a_text"), "compose")

\* Step 3: the phone number goes into the tagify input, else into the fallback input
\* when the page has one; send_sms() goes on either way
sms_enter_phone(r) ==
    /\ InSms(r, "compose")
    /\ \E tagify_input \in BOOLEAN, input \in BOOLEAN :
        Continue(r, [step |-> "phone", entered |-> tagify_input \/ input], "message")

\* Step 4: the message goes into the textarea when the page has one
sms_enter_message(r) ==
    /\ InSms(r, "message")
    /\ \E textarea \in BOOLEAN :
        Continue(r, [step |-> "message", entered |-> textarea], "send")

\* Step 5: click Send, then the settle sleep
sms_click_send(r) ==
    /\ InSms(r, "send")
    /\ \E send_clicked \in BOOLEAN :
        IF ~send_clicked
        THEN Finally(r, Failure("Could not find Send button"))
        ELSE Continue(r, Step("send"), "settle")

\* error_el = await page.query_selector(".alert-danger, .toast-error, .error-message")
sms_query_errors(r) ==
    /\ InSms(r, "settle")
    /\ \E els \in Indicators :
        Continue(r, [step |-> "check", indicators |-> els, error_el |-> query_selector(els)],
                 "checked")

\* a send_sms that goes back to the Send button when the page shows an error
sms_result_Resend(r) ==
    /\ InSms(r, "checked")
    /\ LET check == req[r].steps[Len(req[r].steps)]
       IN IF check.error_el # 0 /\ check.indicators[check.error_el]
          THEN Continue(r, Step("retry"), "send")
          ELSE Finally(r, [success |-> TRUE])

\* if error_el: if is_visible: return the failure; return {"success": True}
sms_result(r) ==
    /\ InSms(r, "checked")
    /\ LET check == req[r].steps[Len(req[r].steps)]
       IN IF check.error_el # 0 /\ check.indicators[check.error_el]
          THEN Finally(r, Failure("Send failed"))
          ELSE Finally(r, [success |-> TRUE])

\* a session extracted and cached at time 0, or none
SmsInit ==
    /\ now = 0
    /\ token_cache \in {clear_cache(<<>>),
                        set_cached(clear_cache(<<>>), "agencyzoom",
                                   ExtractOk("agencyzoom", 1), DefaultTTL, 0)}
    /\ lastOp = NoOp
    /\ prevOp = NoOp
    /\ creds \in CredConfigs
    /\ target = "agencyzoom"
    /\ alert_store = <<>>
    /\ ReqInit

SmsNext ==
    \/ send_agencyzoom_sms_begin(1)
    \/ playwright_started(1)
    \/ browser_launched(1)
    \/ sms_email_field(1)
    \/ sms_password_field(1)
    \/ sms_login_check(1)
    \/ sms_click_add(1)
    \/ sms_click_send_a_text(1)
    \/ sms_enter_phone(1)
    \/ sms_enter_message(1)
    \/ sms_click_send(1)
    \/ sms_query_errors(1)
    \/ sms_result(1)
    \/ body_raises(1)
    \/ browser_closed(1)
    \/ playwright_stopped(1)

SmsSpec == SmsInit /\ [][SmsNext]_vars

\* the steps of a delivery named s
StepsNamed(steps, s) == {i \in DOMAIN steps : steps[i].step = s}
IsSmsResponse(m) == IsResponse(m) /\ m.endpoint = "sms"

\* C6: a delivery starts with a LightweightCall, and FullInteraction (the browser
\* login and compose workflow) is attempted only after a LightweightCall that was not
\* Confirmed: every FullInteraction step of a delivery follows a LightweightCall step.
C6_Escalation ==
    \A r \in Requests :
        (pc[r] # "idle" /\ req[r].endpoint = "sms") =>
            \A i \in StepsNamed(req[r].steps, "email") :
                \E j \in StepsNamed(req[r].steps, "LightweightCall") : j < i

\* C7: a delivery that holds a cached session authenticates again only in answer to a
\* SessionInvalid (401/403) response, and at most once.
C7_BoundedReauth ==
    \A r \in Requests :
        (pc[r] # "idle" /\ req[r].endpoint = "sms"
            /\ StepsNamed(req[r].steps, "prime") # {}) =>
            /\ Cardinality(StepsNamed(req[r].steps, "login")) <= 1
            /\ \A i \in StepsNamed(req[r].steps, "login") :
                \E j \in StepsNamed(req[r].steps, "SessionInvalid") : j < i

\* C8: a delivery is reported as a success only when a FullInteraction has resolved it:
\* the browser logged in, opened the compose form, activated Send, and the check after
\* the settle wait found no error element or found the first one not visible. A cached
\* session alone never produces a success.
C8_SuccessResolved ==
    (IsSmsResponse(sent) /\ sent.response.success) =>
        LET steps == sent.steps
            last == steps[Len(steps)]
        IN /\ Len(steps) >= 8
           /\ last.step = "check"
           /\ (last.error_el = 0 \/ ~last.indicators[last.error_el])
           /\ \E i \in StepsNamed(steps, "login"), j \in StepsNamed(steps, "add"),
                 k \in StepsNamed(steps, "send_a_text"), l \in StepsNamed(steps, "send") :
                 i < j /\ j < k /\ k < l /\ l < Len(steps)

\* a delivery that held a cached session is reported as a success
C8_Witness ==
    /\ IsSmsResponse(sent) /\ sent.response.success
    /\ StepsNamed(sent.steps, "prime") # {}
    /\ StepsNamed(sent.steps, "send") # {}

\* C9: FullInteraction declares success only if no visible error indicator is present
\* after Send was activated and the settle wait elapsed.
C9_NoVisibleError ==
    (IsSmsResponse(sent) /\ sent.response.success) =>
        \A i \in StepsNamed(sent.steps, "check") :
            \A e \in DOMAIN sent.steps[i].indicators : ~sent.steps[i].indicators[e]

\* ------------------------------------------- DelphiProxy.send_message: reply polling
\* A text is a sequence of tokens; the token "Error" stands for the five characters a
\* text starts with when it is an error marker.

MaxSampleLen == 2
MaxLatency == 1

\* send_message's default timeout, in seconds
timeout == 60
\* "unchanged for 4 checks"
StabilityChecks == 4

Tokens == {"Error", "a"}
Samples == UNION {[1..n -> Tokens] : n \in 0..MaxSampleLen}
startswith(s, token) == Len(s) > 0 /\ s[1] = token

\* the loop's test of a sample: it becomes the new last_response
IsNewResponse(response, last_response) ==
    response # <<>> /\ response # last_response /\ ~startswith(response, "Error")

\* send_message's locals when its loop starts; deadline is its timeout argument, feed
\* the samples a scripted page will show (none when the page is free), shown the bot
\* replies the chat displayed when the message was submitted
SendMessage(deadline) ==
    [endpoint |-> "delphi", provider |-> "delphi", force_refresh |-> FALSE, n |-> 0,
     steps |-> <<>>, response |-> <<>>, last_response |-> <<>>, stable_count |-> 0,
     elapsed |-> 0, timeout |-> deadline, feed |-> <<>>, shown |-> <<>>]

DelphiReq == SendMessage(timeout)

\* one pass of the loop body over a sample: last_response and stable_count
poll(q, response) ==
    LET new == IsNewResponse(response, q.last_response)
    IN [q EXCEPT !.response = response,
                 !.last_response = IF new THEN response ELSE q.last_response,
                 !.stable_count = IF new THEN 0 ELSE q.stable_count + 1]

\* the break test
is_stable(q) == q.stable_count >= StabilityChecks /\ q.last_response # <<>>

\* return last_response if last_response else "No response received"
best_response(q) ==
    IF q.last_response # <<>> THEN q.last_response ELSE <<"No response received">>

\* chat_with_delphi's response around send_message's return value; how is the way
\* send_message came to return
DelphiAnswer(r, q, answer, how) ==
    [r |-> r, endpoint |-> q.endpoint, provider |-> q.provider, how |-> how,
     login |-> "none", feed |-> q.feed, shown |-> q.shown,
     response |-> [success |-> TRUE, answer |-> answer]]

delphi_returns(r, q, answer, how) ==
    /\ sent' = DelphiAnswer(r, q, answer, how)
    /\ pc' = [pc EXCEPT ![r] = "idle"]
    /\ req' = [req EXCEPT ![r] = NoReq]
    /\ UNCHANGED <<cacheVars, creds, target, alert_store, ext, open>>

\* send_message up to the loop: the message is typed and submitted; an exception is
\* returned as an "Error: ..." text
\* a failure response of /delphi/chat or /delphi/initialize; how is the way the call
\* into the proxy ended, login the username the login form was given
DelphiFailure(r, endpoint, error, how, login) ==
    [r |-> r, endpoint |-> endpoint, provider |-> "delphi", how |-> how, login |-> login,
     feed |-> <<>>, response |-> [success |-> FALSE, error |-> error]]

\* a send_message that tests the chat frame only
send_message_raises_FrameOnly(proxy) ==
    IF ~proxy.chat_frame THEN "Chat frame not available" ELSE "None"

\* the checks send_message makes before it touches the chat input: the RuntimeError it
\* raises, "None" when it goes on
send_message_raises(proxy) ==
    IF ~proxy.is_initialized THEN "Proxy not initialized"
    ELSE IF ~proxy.chat_frame THEN "Chat frame not available"
    ELSE "None"

\* chat_with_delphi up to the loop. An uninitialized proxy is refused by the handler
\* (HTTP 503); without a chat frame send_message raises RuntimeError, which the handler
\* turns into a failure response; then the message is typed and submitted, and an
\* exception there is returned as an "Error: ..." text
delphi_send_message(r) ==
    /\ pc[r] = "idle"
    /\ IF ~ext["delphi"].is_initialized
       THEN /\ sent' = DelphiFailure(r, "delphi", "Delphi not initialized", "refused", "none")
            /\ UNCHANGED <<cacheVars, creds, target, alert_store, pc, req, ext, open>>
       ELSE IF send_message_raises(ext["delphi"]) # "None"
       THEN /\ sent' = DelphiFailure(r, "delphi", send_message_raises(ext["delphi"]),
                                     "RuntimeError", "none")
            /\ UNCHANGED <<cacheVars, creds, target, alert_store, pc, req, ext, open>>
       ELSE \E raised \in BOOLEAN :
            IF raised
            THEN delphi_returns(r, DelphiReq, <<"Error">>, "raised")
            ELSE /\ req' = [req EXCEPT ![r] = DelphiReq]
                 /\ pc' = [pc EXCEPT ![r] = "polling"]
                 /\ sent' = NoReq
                 /\ UNCHANGED <<cacheVars, creds, target, alert_store, ext, open>>

\* ------------------------------------------------------------ /delphi/initialize
MaxDelphiInits == 2

\* the response of initialize_delphi after initialize() returned
DelphiInitialized(r, login) ==
    [r |-> r, endpoint |-> "delphi_init", provider |-> "delphi", how |-> "returned",
     login |-> login, feed |-> <<>>, response |-> [success |-> TRUE, authenticated |-> TRUE]]

\* initialize_delphi up to the first await of initialize(): DELPHI_USERNAME defaults to
\* "tconn"; without DELPHI_PASSWORD the handler answers with a failure
initialize_delphi_begin(r) ==
    /\ pc[r] = "idle"
    /\ ext["delphi"].launched < MaxDelphiInits
    /\ IF ~creds["delphi_password"]
       THEN /\ sent' = DelphiFailure(r, "delphi_init", "DELPHI_PASSWORD not configured",
                                     "not called", "none")
            /\ UNCHANGED <<pc, req>>
       ELSE /\ req' = [req EXCEPT ![r] =
                          [endpoint |-> "delphi_init", provider |-> "delphi",
                           username |-> IF creds["delphi_username"] THEN "supplied"
                                        ELSE "default",
                           login |-> "none"]]
            /\ pc' = [pc EXCEPT ![r] = "d_launching"]
            /\ sent' = NoReq
    /\ UNCHANGED <<cacheVars, creds, target, alert_store, ext, open>>

\* initialize(): the driver, the browser, the context, the page, goto(target_url)
delphi_launched(r) ==
    /\ pc[r] = "d_launching"
    /\ ext' = [ext EXCEPT !["delphi"].launched = @ + 1, !["delphi"].browser = @ + 1]
    /\ open' = open \cup {ext["delphi"].launched + 1}
    /\ pc' = [pc EXCEPT ![r] = "d_login"]
    /\ sent' = NoReq
    /\ UNCHANGED <<cacheVars, creds, target, alert_store, req>>

\* if "login" in self.page.url.lower(): await self._login(username, password), which
\* raises when the login fails
delphi_login(r) ==
    /\ pc[r] = "d_login"
    /\ \E login_required \in BOOLEAN, logged_in \in BOOLEAN :
        IF login_required /\ ~logged_in
        THEN /\ sent' = DelphiFailure(r, "delphi_init", "Login failed", "raised",
                                      req[r].username)
             /\ pc' = [pc EXCEPT ![r] = "idle"]
             /\ req' = [req EXCEPT ![r] = NoReq]
             /\ UNCHANGED <<cacheVars, creds, target, alert_store, ext, open>>
        ELSE /\ req' = [req EXCEPT ![r].login =
                           IF login_required THEN req[r].username ELSE "none"]
             /\ pc' = [pc EXCEPT ![r] = "d_bubble"]
             /\ sent' = NoReq
             /\ UNCHANGED <<cacheVars, creds, target, alert_store, ext, open>>

\* _open_chat_bubble(), which keeps its exceptions: self.chat_frame is the iframe's
\* content frame, None when the iframe has none, and left as it was when the iframe is
\* not found; then is_initialized = True and the handler's response
delphi_open_chat_bubble(r) ==
    /\ pc[r] = "d_bubble"
    /\ \E iframe_element \in BOOLEAN, content_frame \in BOOLEAN :
        ext' = [ext EXCEPT !["delphi"].is_initialized = TRUE,
                           !["delphi"].chat_frame = IF iframe_element THEN content_frame
                                                    ELSE @]
    /\ sent' = DelphiInitialized(r, req[r].login)
    /\ pc' = [pc EXCEPT ![r] = "idle"]
    /\ req' = [req EXCEPT ![r] = NoReq]
    /\ UNCHANGED <<cacheVars, creds, target, alert_store, open>>

\* an await of initialize() raises: nothing is cleaned up, the handler answers with
\* the failure
delphi_initialize_raises(r) ==
    /\ pc[r] \in {"d_launching", "d_login"}
    /\ sent' = DelphiFailure(r, "delphi_init", "Exception", "raised", "none")
    /\ pc' = [pc EXCEPT ![r] = "idle"]
    /\ req' = [req EXCEPT ![r] = NoReq]
    /\ UNCHANGED <<cacheVars, creds, target, alert_store, ext, open>>

\* close(), which lifespan() calls when the application shuts down: the context, the
\* browser and the driver the proxy refers to are closed, then is_initialized = False;
\* chat_frame and self.browser stay
delphi_close(r) ==
    /\ pc[r] = "idle"
    /\ ext' = [ext EXCEPT !["delphi"].is_initialized = FALSE]
    /\ open' = open \ {ext["delphi"].browser}
    /\ sent' = NoReq
    /\ UNCHANGED <<cacheVars, creds, target, alert_store, pc, req>>

\* the environments: DELPHI_USERNAME and DELPHI_PASSWORD supplied or not
DelphiCreds ==
    {[k \in Keys \cup {"delphi_username", "delphi_password"} |->
        (k = "delphi_username" => u) /\ (k = "delphi_password" => pw)] :
     u \in BOOLEAN, pw \in BOOLEAN}

\* one iteration of the while loop: a sample, the counter, the break test, the sleep
delphi_poll(r) ==
    /\ pc[r] = "polling"
    /\ req[r].elapsed < req[r].timeout
    /\ \E response \in Samples, latency \in 0..MaxLatency :
        LET q == req[r]
            q1 == poll(q, response)
        IN IF is_stable(q1)
           THEN delphi_returns(r, q1, q1.last_response, "break")
           ELSE /\ req' = [req EXCEPT ![r] = [q1 EXCEPT !.elapsed = q.elapsed + 1 + latency]]
                /\ sent' = NoReq
                /\ UNCHANGED <<cacheVars, creds, target, alert_store, pc, ext, open>>

\* the while condition fails: return last_response if last_response else "No response
\* received"
delphi_timeout(r) ==
    /\ pc[r] = "polling"
    /\ ~(req[r].elapsed < req[r].timeout)
    /\ delphi_returns(r, req[r], best_response(req[r]), "timeout")

DelphiInit ==
    /\ now = 0
    /\ token_cache = clear_cache(<<>>)
    /\ lastOp = NoOp
    /\ prevOp = NoOp
    /\ creds \in DelphiCreds
    /\ target = "agencyzoom"
    /\ alert_store = <<>>
    /\ ReqInit

DelphiNext ==
    \/ initialize_delphi_begin(1)
    \/ delphi_launched(1)
    \/ delphi_login(1)
    \/ delphi_open_chat_bubble(1)
    \/ delphi_initialize_raises(1)
    \/ delphi_close(1)
    \/ delphi_send_message(1)
    \/ delphi_poll(1)
    \/ delphi_timeout(1)

DelphiSpec == DelphiInit /\ [][DelphiNext]_vars

\* this step takes a sample in request r's polling loop and the loop goes on
IsSample(r) ==
    /\ pc[r] = "polling" /\ pc'[r] = "polling"
    /\ req'[r].elapsed > req[r].elapsed

\* C10: the stability counter counts only consecutive samples that are non-empty and
\* identical to the previous sample: a sample that differs from the previous one, is
\* empty or is an error marker resets it to zero, and any other sample adds one.
C10_StabilityCounter ==
    [][\A r \in Requests :
        IsSample(r) =>
            LET sample == req'[r].response
                previous == req[r].response
            IN IF sample = <<>> \/ startswith(sample, "Error") \/ sample # previous
               THEN req'[r].stable_count = 0
               ELSE req'[r].stable_count = req[r].stable_count + 1
      ]_vars

\* ------------------------------------- the polling loop over a scripted sample sequence
\* send_message(message, timeout) against a page that shows feed[i] at the i-th sample,
\* one sample a second, with the deadline falling when the feed ends.

MaxFeed == 7

FeedTexts == {<<>>, <<"a">>, <<"a", "b">>, <<"a", "b", "c">>}
Feeds == UNION {[1..n -> FeedTexts] : n \in 0..MaxFeed}

StabilizerInit ==
    /\ now = 0
    /\ token_cache = clear_cache(<<>>)
    /\ lastOp = NoOp
    /\ prevOp = NoOp
    /\ creds = [k \in Keys |-> TRUE]
    /\ target = "agencyzoom"
    /\ alert_store = <<>>
    /\ sent = NoReq
    /\ ext = Instances([is_initialized |-> TRUE, chat_frame |-> TRUE, launched |-> 1,
                        browser |-> 1])
    /\ open = {1}
    /\ pc = [r \in Requests |-> IF r = 1 THEN "polling" ELSE "idle"]
    /\ \E feed \in Feeds :
        req = [r \in Requests |->
                 IF r = 1 THEN [SendMessage(Len(feed)) EXCEPT !.feed = feed] ELSE NoReq]

\* one iteration of the while loop on the next sample of the feed
feed_poll(r) ==
    /\ pc[r] = "polling"
    /\ req[r].elapsed < req[r].timeout
    /\ LET q == req[r]
           q1 == poll(q, q.feed[q.elapsed + 1])
       IN IF is_stable(q1)
          THEN delphi_returns(r, q1, q1.last_response, "break")
          ELSE /\ req' = [req EXCEPT ![r] = [q1 EXCEPT !.elapsed = q.elapsed + 1]]
               /\ sent' = NoReq
               /\ UNCHANGED <<cacheVars, creds, target, alert_store, pc, ext, open>>

StabilizerNext ==
    \/ feed_poll(1)
    \/ delphi_timeout(1)

StabilizerSpec == StabilizerInit /\ [][StabilizerNext]_vars

\* the feed starts with x, y, z, z, z, z for three different non-empty texts
StartsWithVector(f) ==
    /\ Len(f) >= 6
    /\ f[1] # <<>> /\ f[2] # <<>> /\ f[3] # <<>>
    /\ f[1] # f[2] /\ f[2] # f[3] /\ f[1] # f[3]
    /\ f[4] = f[3] /\ f[5] = f[3] /\ f[6] = f[3]
\* no sample of the feed is the same as an earlier one
NeverRepeats(f) == \A i, j \in DOMAIN f : i # j => f[i] # f[j]
\* the positions of the non-empty samples
NonEmpty(f) == {i \in DOMAIN f : f[i] # <<>>}
IsDelphiAnswer(m) == IsResponse(m) /\ m.endpoint = "delphi"

\* C11: on samples "a", "ab", "abc", "abc", "abc", "abc" with threshold 4 the stabilizer
\* converges on the fourth "abc" and returns "abc", whatever the page shows later; on
\* samples that never repeat it returns at the deadline with the last non-empty sample.
C11_Stabilizes ==
    IsDelphiAnswer(sent) =>
        /\ StartsWithVector(sent.feed) => sent.response.answer = sent.feed[3]
        /\ (NeverRepeats(sent.feed) /\ NonEmpty(sent.feed) # {}) =>
               /\ sent.how = "timeout"
               /\ \E i \in NonEmpty(sent.feed) :
                    /\ \A j \in NonEmpty(sent.feed) : j <= i
                    /\ sent.response.answer = sent.feed[i]

\* the responses chat_with_delphi can give for a reply that converged
ConvergedResponses ==
    {[success |-> TRUE, answer |-> t] : t \in {x \in Samples : IsNewResponse(x, <<>>)}}

\* C12: the result tells a timeout from a convergence: what is returned when the deadline
\* elapses before convergence is never a result that a converged reply can also be.
C12_TimeoutDistinguished ==
    (IsDelphiAnswer(sent) /\ sent.how = "timeout") => sent.response \notin ConvergedResponses

\* ------------------------------------------------- one extract() call, step by step
\* AgencyZoomExtractor / MMIExtractor / RPRExtractor.extract() after the page is open.
\* What the page shows is the environment's choice at each step.

\* the selectors of each provider's ladders, in the order they are tried
EmailLadder(p) == IF p = "mmi" THEN 1..4 ELSE 1..3
PasswordLadder(p) == IF p = "agencyzoom" THEN 1..3 ELSE 1..1
SubmitLadder(p) == IF p = "rpr" THEN 1..2 ELSE 1..3

\* a ladder run: the loop probes the selectors in order and breaks at the first usable
\* one. present are the selectors that resolve to an element, usable those among them
\* whose loop body does not raise.
Probe(ladder, present, usable) ==
    LET used == FirstMatch(usable)
    IN [present |-> present, used |-> used,
        probed |-> IF used = 0 THEN ladder ELSE {i \in ladder : i <= used}]

InExtract(r, stage) == pc[r] = stage /\ req[r].endpoint = "session" /\ req[r].n \in open

\* page.goto(login), then the e-mail ladder (wait_for_selector) and email_field.fill
x_email_field(r) ==
    /\ InExtract(r, "running")
    /\ LET p == req[r].provider
       IN \E present \in SUBSET EmailLadder(p) :
            LET l == Probe(EmailLadder(p), present, present)
            IN IF l.used = 0
               THEN Finally(r, ExtractFail(p, "FieldNotFound(email)"))
               ELSE Continue(r, [step |-> "email", ladder |-> l, resolved |-> TRUE],
                             "x_password")

\* the password ladder (AgencyZoom) or the single password selector, and fill
x_password_field(r) ==
    /\ InExtract(r, "x_password")
    /\ LET p == req[r].provider
       IN \E present \in SUBSET PasswordLadder(p) :
            LET l == Probe(PasswordLadder(p), present, present)
            IN IF l.used = 0
               THEN Finally(r, ExtractFail(p, "FieldNotFound(password)"))
               ELSE Continue(r, [step |-> "password", ladder |-> l, resolved |-> TRUE],
                             "x_submit")

\* the submit ladder. AgencyZoom clicks the button found, else presses Enter in the
\* password field. MMI clicks inside the loop's try, so a click that raises moves on to
\* the next selector; then it scans the buttons by text, and fails when nothing was
\* clicked. RPR clicks the button found, else the first button with a matching text, and
\* goes on either way.
x_submit(r) ==
    /\ InExtract(r, "x_submit")
    /\ LET p == req[r].provider
       IN \E present \in SUBSET SubmitLadder(p), clickable \in SUBSET SubmitLadder(p),
             by_text \in BOOLEAN :
            /\ clickable \subseteq present
            /\ p # "mmi" => clickable = present
            /\ p = "agencyzoom" => ~by_text
            /\ LET l == Probe(SubmitLadder(p), present, clickable)
                   resolved == l.used # 0 \/ (by_text /\ l.used = 0)
               IN IF p = "mmi" /\ ~resolved
                  THEN Finally(r, ExtractFail(p, "FieldNotFound(submit)"))
                  ELSE Continue(r, [step |-> "submit", ladder |-> l, resolved |-> resolved],
                                "x_postauth")

\* after the wait: AgencyZoom fails when the URL still holds "login"; MMI fails then only
\* when it finds an error element, and otherwise waits and goes on; RPR does not look.
x_post_auth(r) ==
    /\ InExtract(r, "x_postauth")
    /\ LET p == req[r].provider
       IN \E on_login \in BOOLEAN, error_el \in BOOLEAN :
            IF p # "rpr" /\ on_login /\ error_el
            THEN Finally(r, ExtractFail(p, "LoginRejected(message)"))
            ELSE IF p = "agencyzoom" /\ on_login
            THEN Finally(r, ExtractFail(p, "LoginRejected(unknown)"))
            ELSE Continue(r, [step |-> "postauth", on_login |-> on_login], "x_harvest")

\* the harvest: the CSRF meta tag and the cookies (AgencyZoom), the cookies (MMI), the
\* token from storage, the property page or the cookies (RPR)
x_harvest(r) ==
    /\ InExtract(r, "x_harvest")
    /\ \E cookies \in BOOLEAN, csrf \in BOOLEAN, token \in BOOLEAN :
        /\ req[r].provider = "rpr" => (~cookies /\ ~csrf)
        /\ req[r].provider = "mmi" => (~csrf /\ ~token)
        /\ req[r].provider = "agencyzoom" => ~token
        /\ Continue(r, [step |-> "harvest", cookies |-> cookies, csrf |-> csrf,
                        token |-> token], "x_harvested")

\* extract()'s result for what the harvest found
Harvested(p, n, found) ==
    IF p = "rpr"
    THEN (IF found.token THEN [token |-> n] ELSE ExtractFail(p, "ArtifactNotFound"))
    ELSE IF p = "mmi"
    THEN (IF found.cookies THEN [success |-> TRUE, sid |-> n, cookies |-> TRUE]
          ELSE ExtractFail(p, "ArtifactNotFound"))
    ELSE [success |-> TRUE, sid |-> n, cookies |-> found.cookies, csrfToken |-> found.csrf]

x_result(r) ==
    /\ InExtract(r, "x_harvested")
    /\ Finally(r, Harvested(req[r].provider, req[r].n, req[r].steps[Len(req[r].steps)]))

ExtractInit ==
    /\ now = 0
    /\ token_cache = clear_cache(<<>>)
    /\ lastOp = NoOp
    /\ prevOp = NoOp
    /\ target \in Keys
    /\ alert_store = <<>>
    /\ creds \in {[k \in Keys |-> TRUE], [k \in Keys |-> k # target]}
    /\ ReqInit

ExtractNext ==
    \/ \E p \in Keys, force \in BOOLEAN : get_session_begin(1, p, force)
    \/ playwright_started(1)
    \/ browser_launched(1)
    \/ x_email_field(1)
    \/ x_password_field(1)
    \/ x_submit(1)
    \/ x_post_auth(1)
    \/ x_harvest(1)
    \/ x_result(1)
    \/ body_raises(1)
    \/ browser_closed(1)
    \/ playwright_stopped(1)

ExtractSpec == ExtractInit /\ [][ExtractNext]_vars

\* the steps of the extract() calls in progress and of the call just answered
StepLogs ==
    {req[r].steps : r \in {q \in Requests : pc[q] # "idle" /\ req[q].endpoint = "session"}}
        \cup (IF IsResponse(sent) /\ sent.endpoint = "session" THEN {sent.steps} ELSE {})
LoggedSteps == UNION {{st[i] : i \in DOMAIN st} : st \in StepLogs}

\* C13: first match wins: a ladder's descriptors are probed in list order, the first one
\* that resolves is the one used, and no descriptor after it is probed.
C13_FirstMatchWins ==
    \A st \in LoggedSteps :
        ("ladder" \in DOMAIN st /\ st.ladder.present # {}) =>
            /\ st.ladder.used = FirstMatch(st.ladder.present)
            /\ st.ladder.probed = {i \in st.ladder.probed : i <= st.ladder.used}

\* C14: when no descriptor of a required login field (e-mail, password, submit)
\* resolves, the attempt fails with FieldNotFound naming the field: extract() never goes
\* past a field it did not resolve.
C14_FieldNotFound ==
    \A st \in LoggedSteps : "resolved" \in DOMAIN st => st.resolved

\* C15: when the page is still the login page after the credentials were submitted, the
\* attempt fails with LoginRejected and the harvest is never reached.
C15_PostAuthCheck ==
    \A st \in LoggedSteps : st.step = "postauth" => ~st.on_login

\* C16: an extraction succeeds only with a populated session: when the harvest finds no
\* cookies or no CSRF token (AgencyZoom), no cookies (MMI) or no token (RPR), the result
\* is ArtifactNotFound and not a success.
C16_PopulatedSession ==
    (IsResponse(sent) /\ sent.endpoint = "session" /\ sent.response.success
        /\ ~sent.response.fromCache) =>
        LET data == sent.response.data
        IN /\ "cookies" \in DOMAIN data => data.cookies
           /\ "csrfToken" \in DOMAIN data => data.csrfToken
           /\ (sent.provider = "rpr") = ("token" \in DOMAIN data)

\* the failures extract() returns as results
TypedFailures ==
    {"CredentialsMissing", "FieldNotFound(email)", "FieldNotFound(password)",
     "FieldNotFound(submit)", "LoginRejected(message)", "LoginRejected(unknown)",
     "ArtifactNotFound", "Exception"}

\* C17: no automatic retry: extract() is entered only by the first step of a request,
\* and when it returns the request is answered in the same step; a failure is answered
\* with extract()'s error and the cache untouched, never with a second extraction.
C17_NoRetry ==
    [][\A r \in Requests :
        /\ (pc[r] # "starting" /\ pc'[r] = "starting") => pc[r] = "idle"
        /\ (pc[r] \in InCall /\ pc'[r] \notin InCall) =>
              /\ pc'[r] = "idle"
              /\ IsResponse(sent') /\ sent'.r = r
              /\ ~sent'.response.success =>
                    (sent'.response.error \in TypedFailures /\ token_cache' = token_cache)
      ]_vars

\* a request was answered with LoginRejected after one run through the login form
C17_Witness ==
    /\ IsResponse(sent) /\ sent.endpoint = "session" /\ ~sent.response.success
    /\ sent.response.error = "LoginRejected(unknown)"
    /\ Len(sent.steps) = 3
    /\ pc[sent.r] = "idle"

IsDelphi(m) == IsResponse(m) /\ m.provider = "delphi"

\* C18: every failing run of a call into an extractor or the proxy ends by returning a
\* failure result to its caller and never by raising: no response of the Delphi
\* endpoints is made from an exception that initialize() or send_message() raised.
C18_FailuresAreResults ==
    IsDelphi(sent) => (sent.how \notin {"RuntimeError"} /\
                       (sent.endpoint = "delphi_init" => sent.how # "raised"))

\* C19: no operation logs in with a credential the environment did not supply: a
\* missing credential ends the operation with CredentialsMissing before any browser is
\* launched.
C19_CredentialsMissing ==
    /\ \A r \in Requests :
        (pc[r] # "idle" /\ req[r].endpoint = "delphi_init") =>
            (req[r].username = "supplied" /\ creds["delphi_password"])
    /\ IsDelphi(sent) => sent.login # "default"

\* this step is the first step of a credentials request for provider p that does not
\* force a refresh
IsSessionRequest(p) == IsCacheRead(p) /\ sent'.endpoint = "session"
Unexpired(cache, p) == cache[p] # Absent /\ fromisoformat(cache[p].expiresAt) > now
IsFresh(m) == IsResponse(m) /\ m.endpoint = "session" /\ m.response.success
                 /\ ~m.response.fromCache

\* C20: cache-miss flow: a credentials request that finds its provider's key absent or
\* expired is not answered from the cache but runs the extractor (whose first check may
\* end it at once); a successful extraction is stored under the provider's key with an
\* expiry later than the current time; and a request without force_refresh that finds
\* the stored entry before its expiry is answered with that entry, without entering
\* extract() and without touching the cache.
C20_CacheMissFlow ==
    [][\A p \in Keys :
        /\ (IsSessionRequest(p) /\ ~Unexpired(token_cache, p))
            => /\ ~FromCache(sent')
               /\ IF creds[p]
                  THEN ~IsResponse(sent') /\ pc'[sent'.r] = "starting"
                  ELSE IsResponse(sent') /\ ~sent'.response.success
        /\ (IsFresh(sent') /\ sent'.provider = p)
            => /\ Unexpired(token_cache', p)
               /\ token_cache'[p].data = sent'.response.data
               /\ token_cache'[p].expiresAt = sent'.response.expiresAt
               /\ pc[sent'.r] \in InCall /\ pc'[sent'.r] = "idle"
        /\ (IsSessionRequest(p) /\ Unexpired(token_cache, p))
            => /\ FromCache(sent')
               /\ sent'.response.data = token_cache[p]
               /\ UNCHANGED <<token_cache, pc, req, ext, open>>
      ]_vars

\* a request was answered from the cache with what an earlier extraction stored
C20_Witness ==
    /\ FromCache(sent) /\ sent.endpoint = "session"
    /\ sent.response.data = token_cache[sent.provider]
    /\ sent.response.data.data = StoredData(sent.provider, ExtractOk(sent.provider, 1))
    /\ \A r \in Requests : pc[r] = "idle"

\* ------------------------------------------------------- the cache's entries
\* C21: set_cached(k, v, ttl) on a key that already has an entry replaces the entry: the
\* new entry is exactly v's fields and the expiry computed by this call, whatever the
\* fields and the expiry of the entry it found.
C21_Replace ==
    [][\A k \in Keys :
        (IsSetStep(k) /\ token_cache[k] # Absent)
            => /\ token_cache'[k].data = lastOp'.data
               /\ DOMAIN token_cache'[k] = {"data", "expiresAt"}
               /\ token_cache'[k].expiresAt = isoformat(lastOp'.at + lastOp'.ttl)
      ]_vars

\* an entry was replaced by one with other fields and an earlier expiry
C21_Witness ==
    /\ prevOp.op = "set" /\ lastOp.op = "set" /\ lastOp.key = prevOp.key
    /\ DOMAIN lastOp.data # DOMAIN prevOp.data
    /\ lastOp.at + lastOp.ttl < prevOp.at + prevOp.ttl
    /\ token_cache[lastOp.key].data = lastOp.data

\* C22: the expiry of an entry is the time of the set plus the time to live its caller
\* passed: a session stored by /agencyzoom/session or /mmi/token expires 23 hours after
\* the handler stored it, a token stored by /rpr/token one hour after.
C22_CallerTTL ==
    [][\A p \in Keys :
        (IsFresh(sent') /\ sent'.provider = p)
            => /\ fromisoformat(token_cache'[p].expiresAt)
                    = now + (IF p = "rpr" THEN 1 ELSE 23)
               /\ sent'.response.expiresAt = token_cache'[p].expiresAt
      ]_vars

\* an RPR token was stored after the clock had advanced, and expires an hour later
C22_Witness ==
    /\ IsFresh(sent) /\ sent.provider = "rpr" /\ now > 0
    /\ token_cache["rpr"] # Absent
    /\ fromisoformat(token_cache["rpr"].expiresAt) = now + 1

\* an entry as a handler stores it for provider p after a successful extraction
StoredBySuccess(e, p) ==
    /\ DOMAIN e = {"data", "expiresAt"}
    /\ IF p = "rpr" THEN "token" \in DOMAIN e.data
       ELSE "success" \in DOMAIN e.data /\ e.data.success

\* C23: entries are created or overwritten only by a successful extraction: a step that
\* puts an entry under a key is the response of that provider's handler to an extraction
\* that reported success (returned a token, for RPR) and stores what it responds with;
\* so every entry holds such a result and carries an expiresAt.
C23_OnlySuccessStored ==
    [][\A p \in Keys :
        /\ (token_cache'[p] # Absent /\ token_cache'[p] # token_cache[p])
            => /\ IsFresh(sent') /\ sent'.provider = p
               /\ token_cache'[p].data = sent'.response.data
        /\ token_cache'[p] # Absent => StoredBySuccess(token_cache'[p], p)
      ]_vars

\* a forced refresh overwrote the entry of its provider with a later session
C23_Witness ==
    /\ IsFresh(sent) /\ sent.force_refresh /\ sent.n = 2
    /\ token_cache[sent.provider].data = sent.response.data
    /\ StoredBySuccess(token_cache[sent.provider], sent.provider)

\* this step is a call of clear_cache
IsClearStep == lastOp'.op = "clear" /\ <<lastOp', prevOp'>> # <<lastOp, prevOp>>

\* C24: when clear_cache returns no key is in the cache, and get_cached of a key that is
\* not in the cache returns None, so every get_cached after a clear_cache and before a
\* set_cached of its key returns None; and an entry leaves the cache only in a
\* clear_cache or in a get_cached of its key that finds it expired.
C24_ClearAll ==
    [][\A k \in Keys :
        /\ IsClearStep => token_cache'[k] = Absent
        /\ (lastOp.op = "clear" /\ IsGetStep(k))
            => (lastOp'.ret = None /\ token_cache'[k] = Absent)
        /\ (token_cache[k] = Absent /\ ~IsSetStep(k)) => token_cache'[k] = Absent
        /\ (token_cache[k] = Absent /\ IsGetStep(k)) => lastOp'.ret = None
        /\ (token_cache[k] # Absent /\ token_cache'[k] = Absent)
            => \/ IsClearStep
               \/ IsGetStep(k) /\ ~(fromisoformat(token_cache[k].expiresAt) > now)
      ]_vars

\* the cache was cleared and the next read of a key found nothing to return or remove
C24_Witness ==
    /\ prevOp.op = "clear" /\ lastOp.op = "get"
    /\ lastOp.ret = None /\ ~lastOp.deleted
    /\ \A k \in Keys : token_cache[k] = Absent

\* another request is inside extract() / send_sms() while request r's handler runs
Concurrent(r) == \E r2 \in Requests \ {r} : pc[r2] \in InCall

\* C25: the cache operations are atomic under every interleaving of the requests: every
\* state of the cache holds whole entries only, a cache hit returns a whole entry, and
\* the read of token_cache[key] a handler makes right after its set_cached finds the
\* entry it has just written, whatever the other requests do.
C25_AtomicCacheOps ==
    [][/\ \A p \in Keys :
            token_cache'[p] = Absent \/ DOMAIN token_cache'[p] = {"data", "expiresAt"}
       /\ FromCache(sent') => DOMAIN sent'.response.data = {"data", "expiresAt"}
       /\ IsFresh(sent')
            => /\ token_cache'[sent'.provider] # Absent
               /\ token_cache'[sent'.provider]
                    = [data |-> sent'.response.data, expiresAt |-> sent'.response.expiresAt]
               /\ sent'.response.expiresAt = isoformat(now + TTL(sent'.provider))
      ]_vars

\* a handler stored and answered while the other request, which had found the same key
\* missing, was still inside extract()
C25_Witness ==
    /\ IsFresh(sent) /\ Concurrent(sent.r)
    /\ \E r2 \in Requests \ {sent.r} : req[r2].provider = sent.provider
    /\ token_cache[sent.provider].expiresAt = sent.response.expiresAt

\* ------------------------------------------------- the polling loop's progress
\* response = await self._extract_latest_response(): chat_frame.evaluate() takes no
\* timeout and send_message puts none around it, so besides returning a text (or an
\* "Error extracting response" text for an exception, both in delphi_poll) the await
\* can stay pending, and the loop with it
delphi_sample_pending(r) ==
    /\ pc[r] = "polling"
    /\ req[r].elapsed < req[r].timeout
    /\ pc' = [pc EXCEPT ![r] = "sampling"]
    /\ sent' = NoReq
    /\ UNCHANGED <<cacheVars, creds, target, alert_store, req, ext, open>>

DelphiLiveNext ==
    \/ DelphiNext
    \/ delphi_sample_pending(1)

\* the event loop runs every handler that can take a step
DelphiLiveSpec == DelphiInit /\ [][DelphiLiveNext]_vars /\ WF_vars(DelphiLiveNext)

\* C26: the polling loop always terminates: a send_message that has entered the loop
\* returns, on convergence or once the deadline has elapsed, and no sample read keeps
\* the deadline from ending the loop.
C26_LoopTerminates == (pc[1] \in {"polling", "sampling"}) ~> (pc[1] = "idle")

\* ------------------------------------------------------ the VM SMS service
\* vm-sms-service.py: POST /send runs the browser workflow with its own driver and
\* browser (locals of the handler), one await at a time. Its SMSResponse has the fields
\* success, error and step; "None" is an Optional field left out.
VmStages == {"v_launching", "v_login", "v_password", "v_submitted", "v_messages",
             "v_add_menu", "v_compose", "v_message", "v_send", "v_settle"}

VmResponse(success, error, step) == [success |-> success, error |-> error, step |-> step]

\* the locals of send_sms: playwright, browser (FALSE is None), and the log of its steps
VmReq ==
    [endpoint |-> "vm_send", provider |-> "agencyzoom", force_refresh |-> FALSE, n |-> 0,
     result |-> None, steps |-> <<>>, deleted |-> FALSE, playwright |-> FALSE,
     browser |-> FALSE]

InVm(r, stage) == pc[r] = stage /\ req[r].endpoint = "vm_send"

\* finally: if browser: await browser.close(); if playwright: await playwright.stop();
\* then the response is sent
vm_finally(r, response) ==
    /\ open' = open \ {r}
    /\ sent' = Sent(r, req[r], response)
    /\ pc' = [pc EXCEPT ![r] = "idle"]
    /\ req' = [req EXCEPT ![r] = NoReq]
    /\ UNCHANGED <<cacheVars, creds, target, alert_store, ext>>

\* the handler up to playwright = await async_playwright().start(): EMAIL and PASSWORD
\* always have a value, so there is no credentials check
vm_send_begin(r) ==
    /\ pc[r] = "idle"
    /\ req' = [req EXCEPT ![r] = VmReq]
    /\ pc' = [pc EXCEPT ![r] = "v_launching"]
    /\ sent' = NoReq
    /\ UNCHANGED <<cacheVars, creds, target, alert_store, ext, open>>

\* browser = await playwright.chromium.launch(), the context, the page, goto(login)
vm_launched(r) ==
    /\ InVm(r, "v_launching")
    /\ req' = [req EXCEPT ![r].playwright = TRUE, ![r].browser = TRUE, ![r].n = r]
    /\ open' = open \cup {r}
    /\ pc' = [pc EXCEPT ![r] = "v_login"]
    /\ sent' = NoReq
    /\ UNCHANGED <<cacheVars, creds, target, alert_store, ext>>

\* the two e-mail selectors, then email_field.fill(EMAIL)
vm_email_field(r) ==
    /\ InVm(r, "v_login")
    /\ \E present \in SUBSET {1, 2} :
        IF FirstMatch(present) = 0
        THEN vm_finally(r, VmResponse(FALSE, "Email field not found", "login"))
        ELSE Continue(r, [step |-> "email", selector |-> FirstMatch(present)], "v_password")

\* the two password selectors, then pw_field.fill(PASSWORD), press Enter, sleep
vm_password_field(r) ==
    /\ InVm(r, "v_password")
    /\ \E present \in SUBSET {1, 2} :
        IF FirstMatch(present) = 0
        THEN vm_finally(r, VmResponse(FALSE, "Password field not found", "login"))
        ELSE Continue(r, [step |-> "login", selector |-> FirstMatch(present)], "v_submitted")

\* if "login" in page.url.lower(); else Step 2: page.goto(messages)
vm_login_check(r) ==
    /\ InVm(r, "v_submitted")
    /\ \E on_login_page \in BOOLEAN :
        IF on_login_page
        THEN vm_finally(r, VmResponse(FALSE, "Login failed - still on login page", "login"))
        ELSE Continue(r, Step("goto_messages"), "v_messages")

\* Step 3: click "Add"
vm_click_add(r) ==
    /\ InVm(r, "v_messages")
    /\ \E add_clicked \in BOOLEAN :
        IF ~add_clicked
        THEN vm_finally(r, VmResponse(FALSE, "Add button not found", "add_button"))
        ELSE Continue(r, Step("add"), "v_add_menu")

\* Step 4: click "Send a Text"
vm_click_send_a_text(r) ==
    /\ InVm(r, "v_add_menu")
    /\ \E send_text_clicked \in BOOLEAN :
        IF ~send_text_clicked
        THEN vm_finally(r, VmResponse(FALSE, "Send a Text link not found", "send_text"))
        ELSE Continue(r, Step("send_a_text"), "v_compose")

\* Step 5: the phone number goes into the tagify input, else into the fallback input
\* when the page has one; the handler goes on either way
vm_enter_phone(r) ==
    /\ InVm(r, "v_compose")
    /\ \E tagify_input \in BOOLEAN, input \in BOOLEAN :
        Continue(r, [step |-> "phone", entered |-> tagify_input \/ input], "v_message")

\* Step 6: the message goes into the textarea when the page has one
vm_enter_message(r) ==
    /\ InVm(r, "v_message")
    /\ \E textarea \in BOOLEAN :
        Continue(r, [step |-> "message", entered |-> textarea], "v_send")

\* Step 7: click Send, then the settle sleep
vm_click_send(r) ==
    /\ InVm(r, "v_send")
    /\ \E send_clicked \in BOOLEAN :
        IF ~send_clicked
        THEN vm_finally(r, VmResponse(FALSE, "Send button not found", "send"))
        ELSE Continue(r, Step("send"), "v_settle")

\* error_el = await page.query_selector(".alert-danger"); if it is visible the failure,
\* else SMSResponse(success=True)
vm_result(r) ==
    /\ InVm(r, "v_settle")
    /\ \E els \in Indicators :
        IF query_selector(els) # 0 /\ els[query_selector(els)]
        THEN vm_finally(r, VmResponse(FALSE, "AgencyZoom error", "send"))
        ELSE vm_finally(r, VmResponse(TRUE, "None", "None"))

\* an await raises: except Exception returns SMSResponse(success=False, error=str(e))
vm_raises(r) ==
    /\ pc[r] \in VmStages /\ req[r].endpoint = "vm_send"
    /\ vm_finally(r, VmResponse(FALSE, "Exception", "None"))

VmSmsInit ==
    /\ now = 0
    /\ token_cache = clear_cache(<<>>)
    /\ lastOp = NoOp
    /\ prevOp = NoOp
    /\ creds \in CredConfigs
    /\ target = "agencyzoom"
    /\ alert_store = <<>>
    /\ ReqInit

VmSmsNext ==
    \/ vm_send_begin(1)
    \/ vm_launched(1)
    \/ vm_email_field(1)
    \/ vm_password_field(1)
    \/ vm_login_check(1)
    \/ vm_click_add(1)
    \/ vm_click_send_a_text(1)
    \/ vm_enter_phone(1)
    \/ vm_enter_message(1)
    \/ vm_click_send(1)
    \/ vm_result(1)
    \/ vm_raises(1)

VmSmsSpec == VmSmsInit /\ [][VmSmsNext]_vars

IsVmResponse(m) == IsResponse(m) /\ m.endpoint = "vm_send"

\* C28: every failure identifies where it failed: every failed response of the VM SMS
\* service's /send carries a step.
C28_FailureHasStep ==
    (IsVmResponse(sent) /\ ~sent.response.success) => sent.response.step # "None"

\* ----------------------------------------------------- the two delivery paths
\* the sidecar's /agencyzoom/sms and the VM service's /send, each delivering messages
DeliveryNext ==
    \/ SmsNext
    \/ VmSmsNext

DeliverySpec == SmsInit /\ [][DeliveryNext]_vars

\* how many times the steps activated the Send control
Submissions(steps) == Cardinality(StepsNamed(steps, "send"))

\* C27: within one delivery call the action is submitted at most once: the log of a
\* send_sms call, while it runs and when it is answered, holds at most one activation
\* of the Send control.
C27_SubmitOnce ==
    /\ \A r \in Requests : "steps" \in DOMAIN req[r] => Submissions(req[r].steps) <= 1
    /\ (IsResponse(sent) /\ "steps" \in DOMAIN sent) => Submissions(sent.steps) <= 1

\* a delivery whose page showed an error after Send was answered with the failure,
\* having activated Send once
C27_Witness ==
    /\ IsSmsResponse(sent) /\ ~sent.response.success
    /\ sent.response.error = "Send failed"
    /\ Submissions(sent.steps) = 1

\* this step is the first step of /delphi/chat for request r
IsChatBegin(r) ==
    /\ pc[r] = "idle"
    /\ \/ pc'[r] = "polling"
       \/ IsDelphi(sent') /\ sent'.endpoint = "delphi" /\ sent'.r = r

\* C29: a message reaches the chat only through an initialized proxy: on a proxy that
\* was never initialized or has been closed send_message raises before it touches the
\* chat input, /delphi/chat refuses the request without calling send_message, and a
\* request that fills and submits the chat input found the proxy initialized.
C29_InitializedOnly ==
    [][/\ ~ext["delphi"].is_initialized => send_message_raises(ext["delphi"]) # "None"
       /\ \A r \in Requests :
            IsChatBegin(r) =>
                IF ext["delphi"].is_initialized
                THEN IsDelphi(sent') => sent'.how # "refused"
                ELSE /\ IsDelphi(sent') /\ sent'.how = "refused"
                     /\ ~sent'.response.success
                     /\ UNCHANGED <<pc, req, ext>>
      ]_vars

\* a chat request was refused by a proxy that had been initialized, with its chat frame,
\* and then closed
C29_Witness ==
    /\ IsDelphi(sent) /\ sent.endpoint = "delphi" /\ sent.how = "refused"
    /\ ~ext["delphi"].is_initialized /\ ext["delphi"].chat_frame
    /\ ext["delphi"].launched > 0

\* a credentials request was answered with a failure
IsFailedSession(m) == IsResponse(m) /\ m.endpoint = "session" /\ ~m.response.success

\* C30 as stated: a failed extraction leaves the cache unchanged: when extract() returned
\* a failure or raised, token_cache is exactly what it was before the request.
C30_CacheAsBefore == IsFailedSession(sent) => ~sent.deleted

\* C30: a failed extraction leaves the cache as the request's cache check left it: the
\* check of a request without force_refresh removes the provider's entry when it has
\* expired and changes nothing else, a request with force_refresh makes no check, and
\* no later step of a request that ends in a failure changes token_cache; so an
\* unexpired session of the provider is still in the cache after the failure.
C30_FailureKeepsCache ==
    [][\A r \in Requests :
        /\ (pc[r] = "idle" /\ pc'[r] = "starting" /\ req'[r].endpoint = "session")
            => LET p == req'[r].provider
               IN /\ \A k \in Keys \ {p} : token_cache'[k] = token_cache[k]
                  /\ \/ token_cache'[p] = token_cache[p] /\ ~req'[r].deleted
                     \/ /\ ~req'[r].force_refresh /\ req'[r].deleted
                        /\ token_cache[p] # Absent /\ ~Unexpired(token_cache, p)
                        /\ token_cache'[p] = Absent
        /\ (pc[r] \in InCall /\ pc'[r] # pc[r] /\ req[r].endpoint = "session"
                /\ ~IsFresh(sent'))
            => token_cache' = token_cache
        /\ (IsFailedSession(sent') /\ sent'.r = r)
            => /\ token_cache' = token_cache
               /\ \A k \in Keys : Unexpired(token_cache, k) => Unexpired(token_cache', k)
      ]_vars

\* a forced refresh failed inside extract() and the unexpired session it was to replace
\* is still in the cache
C30_Witness ==
    /\ IsFailedSession(sent) /\ sent.force_refresh /\ sent.n # 0
    /\ Unexpired(token_cache, sent.provider)

\* --------------------------------------------------- the extractors' browsers
\* C31: every browser a call of extract() or send_sms() launched is closed by that call
\* before it returns and by no other call: a browser is open only while the call that
\* launched it is running, and a call that is working on its page still has its browser,
\* also when calls on the same extractor overlap.
C31_OwnBrowserClosed ==
    /\ \A b \in open : pc[b] \in InCall /\ req[b].n = b
    /\ \A r \in Requests :
        (pc[r] \in {"running"} \cup SmsStages \cup ExtractStages) => req[r].n \in open

\* ------------------------------------------------ a conversation with the bot
\* Several messages sent one after the other through an initialized proxy. The chat page
\* keeps every bot reply it has displayed (replies); the bot answers a message at a time
\* of its choosing, or not at all. _extract_latest_response() returns the last reply
\* the page displays, "" when there is none.
MaxMessages == 3
ChatDeadline == 6

\* the bot's reply to the k-th message: a text of its own
Reply(k) == [i \in 1..k |-> "a"]

\* botResponses[botResponses.length - 1], else ""
latest_response(replies) == IF replies = <<>> THEN <<>> ELSE replies[Len(replies)]

ChatInit ==
    /\ now = 0
    /\ token_cache = clear_cache(<<>>)
    /\ lastOp = NoOp
    /\ prevOp = NoOp
    /\ creds = [k \in Keys |-> TRUE]
    /\ target = "agencyzoom"
    /\ alert_store = <<>>
    /\ pc = [r \in Requests |-> "idle"]
    /\ req = [r \in Requests |-> NoReq]
    /\ sent = NoReq
    /\ ext = Instances([is_initialized |-> TRUE, chat_frame |-> TRUE, launched |-> 1,
                        browser |-> 1, messages |-> 0, replies |-> <<>>])
    /\ open = {1}

\* send_message up to the loop: the message is filled in and submitted, sleep(3),
\* last_response = ""
chat_send_message(r) ==
    /\ pc[r] = "idle"
    /\ ext["delphi"].messages < MaxMessages
    /\ send_message_raises(ext["delphi"]) = "None"
    /\ ext' = [ext EXCEPT !["delphi"].messages = @ + 1]
    /\ req' = [req EXCEPT ![r] =
                  [SendMessage(ChatDeadline) EXCEPT !.shown = ext["delphi"].replies]]
    /\ pc' = [pc EXCEPT ![r] = "polling"]
    /\ sent' = NoReq
    /\ UNCHANGED <<cacheVars, creds, target, alert_store, open>>

\* the bot's reply to the last message appears in the chat
chat_bot_replies ==
    /\ Len(ext["delphi"].replies) < ext["delphi"].messages
    /\ ext' = [ext EXCEPT !["delphi"].replies = Append(@, Reply(ext["delphi"].messages))]
    /\ sent' = NoReq
    /\ UNCHANGED <<cacheVars, creds, target, alert_store, pc, req, open>>

\* one iteration of the while loop on what the page displays now
chat_poll(r) ==
    /\ pc[r] = "polling"
    /\ req[r].elapsed < req[r].timeout
    /\ LET q == req[r]
           q1 == poll(q, latest_response(ext["delphi"].replies))
       IN IF is_stable(q1)
          THEN delphi_returns(r, q1, q1.last_response, "break")
          ELSE /\ req' = [req EXCEPT ![r] = [q1 EXCEPT !.elapsed = q.elapsed + 1]]
               /\ sent' = NoReq
               /\ UNCHANGED <<cacheVars, creds, target, alert_store, pc, ext, open>>

ChatNext ==
    \/ chat_send_message(1)
    \/ chat_bot_replies
    \/ chat_poll(1)
    \/ delphi_timeout(1)

ChatSpec == ChatInit /\ [][ChatNext]_vars

\* C32: a reply returned for a message belongs to that message: send_message never
\* returns as its answer a reply that the chat displayed before the message was
\* submitted.
C32_ReplyBelongsToMessage ==
    IsDelphiAnswer(sent) =>
        \A i \in DOMAIN sent.shown : sent.response.answer # sent.shown[i]

\* ------------------------------------------------------ the proxy's results
\* the texts send_message returns when it has no reply of the bot
NoReply(answer) == answer = <<"No response received">> \/ startswith(answer, "Error")

\* C33: /delphi/chat answers success: true only when a reply of the bot was obtained:
\* the answer of a successful response is never the placeholder of a timeout without a
\* reply nor the error text of a send_message that failed.
C33_SuccessMeansReply ==
    (IsDelphiAnswer(sent) /\ sent.response.success) => ~NoReply(sent.response.answer)

\* C34: the proxy is marked initialized only with a usable chat frame.
C34_InitializedHasFrame == ext["delphi"].is_initialized => ext["delphi"].chat_frame

\* C35: the proxy owns at most one live browser: every open browser it launched is the
\* one it refers to, and when close() has closed a browser none is left open.
C35_OneLiveBrowser ==
    [][/\ \A b \in open' : b = ext'["delphi"].browser
       /\ (open' # open /\ open' \subseteq open) => open' = {}
      ]_vars

\* ------------------------------------------------------ the compose workflow
\* the steps of a delivery up to Send, in their order
Workflow == <<"login", "goto_messages", "add", "send_a_text", "phone", "message", "send">>
WorkflowSteps == {Workflow[i] : i \in DOMAIN Workflow}

\* the workflow steps of a log, by name, in the order they were done
Done(steps) ==
    LET sel == SelectSeq(steps, LAMBDA st : st.step \in WorkflowSteps)
    IN [i \in DOMAIN sel |-> sel[i].step]

\* the log activates Send after the whole workflow, with both fields populated
SentInOrder(steps) ==
    StepsNamed(steps, "send") # {} =>
        /\ Done(steps) = Workflow
        /\ \A i \in StepsNamed(steps, "phone") \cup StepsNamed(steps, "message") :
              steps[i].entered

\* C36: send_sms activates Send only after the login, the compose surface, the
\* recipient and the message body, in this order, with the recipient field and the
\* message field found and populated, and it reports success only after Send.
C36_WholeWorkflow ==
    /\ \A r \in Requests : "steps" \in DOMAIN req[r] => SentInOrder(req[r].steps)
    /\ (IsResponse(sent) /\ sent.endpoint \in {"sms", "vm_send"})
        => /\ SentInOrder(sent.steps)
           /\ sent.response.success => StepsNamed(sent.steps, "send") # {}

\* ------------------------------------------------ what a credentials response says
IsSession(m) == IsResponse(m) /\ m.endpoint = "session"

\* C37: a credentials response has fromCache = true exactly when no extraction was run
\* for its request: a response flagged fromCache is the handler's first step and starts
\* no extract(), any other response that is not a missing-credentials refusal of
\* extract() ends an extract() call; a request with force_refresh always runs the
\* extractor, whatever the cache holds; and the expiresAt of a successful response is
\* the expiry of the provider's entry when the response is sent.
C37_FromCacheFlag ==
    [][\A r \in Requests :
        /\ (IsSession(sent') /\ sent'.r = r)
            => /\ FromCache(sent')
                    <=> (pc[r] = "idle" /\ get_cached_ret(token_cache, sent'.provider, now) # None
                            /\ ~sent'.force_refresh)
               /\ FromCache(sent') => (pc'[r] = "idle" /\ sent'.n = 0)
               /\ (~FromCache(sent') /\ pc[r] = "idle")
                    => (~creds[sent'.provider] /\ ~sent'.response.success)
               /\ sent'.response.success
                    => /\ token_cache'[sent'.provider] # Absent
                       /\ sent'.response.expiresAt = token_cache'[sent'.provider].expiresAt
        /\ (pc[r] = "idle" /\ sent' # NoReq /\ sent'.r = r /\ sent'.endpoint = "session"
                /\ sent'.force_refresh)
            => /\ ~FromCache(sent')
               /\ creds[sent'.provider] => pc'[r] = "starting"
      ]_vars

\* a request with force_refresh went into extract() although the cache held an
\* unexpired session of its provider
C37_Witness ==
    \E r \in Requests :
        /\ pc[r] = "starting" /\ req[r].endpoint = "session" /\ req[r].force_refresh
        /\ Unexpired(token_cache, req[r].provider)

\* ------------------------------------------------------------- the alerts
\* POST /alerts and POST /staff/alerts/{alert_id}/status. Neither handler awaits, so
\* each is one step; the deliveries of an alert run afterwards as a background task, one
\* await at a time, and fill the delivery dict that the stored record shares.
MaxAlerts == 2
MaxNotes == 1

\* None as a timestamp; a timestamp is datetime.now().isoformat()
NoTimestamp == <<>>

\* an Optional[str] that is None or empty is false in a condition
Truthy(x) == x \notin {"None", ""}

\* the requests: the channels to notify (given, or taken from the environment) and
\* crm_task; the other fields are copied as they are (payload)
AlertRequests ==
    {[payload |-> 1, channels |-> {"email"}, crm_task |-> FALSE],
     [payload |-> 2, channels |-> {"slack"}, crm_task |-> TRUE]}

\* the deliveries _deliver will attempt, in its order
Deliveries(request) ==
    (IF "email" \in request.channels THEN <<"email">> ELSE <<>>)
    \o (IF "slack" \in request.channels THEN <<"slack">> ELSE <<>>)
    \o (IF request.crm_task THEN <<"crm">> ELSE <<>>)

\* an id scheme that gives a new alert the number of the last alert stored
next_alert_id_Reuse(store) == IF DOMAIN store = {} THEN 1 ELSE Cardinality(DOMAIN store)

\* alert_id = f"alert-{len(alert_store) + 1}": the number of the id
next_alert_id(store) == Cardinality(DOMAIN store) + 1

\* alert_record; pending is what the record's background task has still to deliver
alert_record(id, request, t) ==
    [id |-> id, created_at |-> isoformat(t), payload |-> request.payload,
     delivery |-> [email |-> "None", slack |-> "None", crm |-> "None"],
     reviewed_at |-> NoTimestamp, contacted_at |-> NoTimestamp, staff_notes |-> <<>>,
     pending |-> Deliveries(request)]

\* alert_store[alert_id] = alert_record
store_alert(store, id, record) ==
    [i \in DOMAIN store \cup {id} |-> IF i = id THEN record ELSE store[i]]

\* what a handler of the alerts was asked and what it answered
AlertSent(endpoint, id, request, status, alert) ==
    [r |-> 0, endpoint |-> endpoint, provider |-> "alerts", alert_id |-> id,
     request |-> request, response |-> [status |-> status, alert |-> alert]]

create_alert(request) ==
    /\ Cardinality(DOMAIN alert_store) < MaxAlerts
    /\ LET id == next_alert_id(alert_store)
           record == alert_record(id, request, now)
       IN /\ alert_store' = store_alert(alert_store, id, record)
          /\ sent' = AlertSent("create_alert", id, request, 200, record)
    /\ UNCHANGED <<cacheVars, creds, target, pc, req, ext, open>>

\* one await of _deliver returns (its result, or the failure its except stores)
alert_deliver(id) ==
    /\ id \in DOMAIN alert_store
    /\ alert_store[id].pending # <<>>
    /\ alert_store' = [alert_store EXCEPT
                          ![id].delivery[Head(alert_store[id].pending)] = "done",
                          ![id].pending = Tail(@)]
    /\ sent' = NoReq
    /\ UNCHANGED <<cacheVars, creds, target, pc, req, ext, open>>

\* the notes of all the alerts
NotesStored(store) ==
    LET RECURSIVE Sum(_)
        Sum(ids) == IF ids = {} THEN 0
                    ELSE LET i == CHOOSE j \in ids : TRUE
                         IN Len(store[i].staff_notes) + Sum(ids \ {i})
    IN Sum(DOMAIN store)

\* an update that sets the timestamp of its status and clears the other one
updated_alert_ClearsOther(alert, status, staff_member, note, t) ==
    [alert EXCEPT
        !.reviewed_at = IF status = "reviewed" THEN isoformat(t) ELSE NoTimestamp,
        !.contacted_at = IF status = "contacted" THEN isoformat(t) ELSE NoTimestamp,
        !.staff_notes = IF Truthy(note) \/ Truthy(staff_member)
                        THEN Append(@, [timestamp |-> isoformat(t),
                                        staff_member |-> staff_member, note |-> note])
                        ELSE @]

\* the record after update_alert_status
updated_alert(alert, status, staff_member, note, t) ==
    [alert EXCEPT
        !.reviewed_at = IF status = "reviewed" THEN isoformat(t) ELSE @,
        !.contacted_at = IF status = "contacted" THEN isoformat(t) ELSE @,
        !.staff_notes = IF Truthy(note) \/ Truthy(staff_member)
                        THEN Append(@, [timestamp |-> isoformat(t),
                                        staff_member |-> staff_member, note |-> note])
                        ELSE @]

update_alert_status(alert_id, status, staff_member, note) ==
    /\ (Truthy(note) \/ Truthy(staff_member)) => NotesStored(alert_store) < MaxNotes
    /\ LET update == [status |-> status, staff_member |-> staff_member, note |-> note]
       IN IF alert_id \notin DOMAIN alert_store
          THEN /\ sent' = AlertSent("update_alert_status", alert_id, update, 404, None)
               /\ UNCHANGED alert_store
          ELSE LET alert == updated_alert(alert_store[alert_id], status, staff_member,
                                          note, now)
               IN /\ alert_store' = [alert_store EXCEPT ![alert_id] = alert]
                  /\ sent' = AlertSent("update_alert_status", alert_id, update, 200, alert)
    /\ UNCHANGED <<cacheVars, creds, target, pc, req, ext, open>>

\* the service has been up for a while when the first alert arrives
AlertInit ==
    /\ now = MaxTime - 1
    /\ token_cache = clear_cache(<<>>)
    /\ lastOp = NoOp
    /\ prevOp = NoOp
    /\ creds = [k \in Keys |-> TRUE]
    /\ target = "agencyzoom"
    /\ alert_store = <<>>
    /\ ReqInit

AlertNext ==
    \/ \E request \in AlertRequests : create_alert(request)
    \/ \E id \in 1..MaxAlerts : alert_deliver(id)
    \/ \E id \in 1..(MaxAlerts + 1), status \in {"reviewed", "contacted"},
          staff_member \in {"None", "sam"}, note \in {"", "called"} :
            update_alert_status(id, status, staff_member, note)
    \/ Tick

AlertSpec == AlertInit /\ [][AlertNext]_vars

IsCreated(m) == m.endpoint = "create_alert"
IsUpdated(m) == m.endpoint = "update_alert_status"

\* C38: alert ids are unique and the store only grows: every stored alert carries the
\* id it is stored under, no step removes an alert, and a create_alert stores its record
\* under an id that no stored alert has and leaves every stored alert as it was.
C38_UniqueIds ==
    [][/\ DOMAIN alert_store \subseteq DOMAIN alert_store'
       /\ \A i \in DOMAIN alert_store' : alert_store'[i].id = i
       /\ (IsCreated(sent') /\ alert_store' # alert_store) =>
            /\ sent'.alert_id \notin DOMAIN alert_store
            /\ DOMAIN alert_store' = DOMAIN alert_store \cup {sent'.alert_id}
            /\ alert_store'[sent'.alert_id] = sent'.response.alert
            /\ \A i \in DOMAIN alert_store : alert_store'[i] = alert_store[i]]_vars

\* a second alert was created while the first one's deliveries were still running, and
\* the two are stored under different ids
C38_Witness ==
    /\ IsCreated(sent)
    /\ sent.alert_id = 2
    /\ DOMAIN alert_store = {1, 2}
    /\ alert_store[1].pending # <<>>
    /\ alert_store[1].id # alert_store[2].id

\* C39: update_alert_status answers 404 exactly for an id that is not stored and then
\* changes nothing; otherwise 'reviewed' sets reviewed_at and 'contacted' sets
\* contacted_at to the time of the call and leaves the other timestamp, the other fields
\* and the other alerts as they were, and a staff note is appended exactly when a note or
\* a staff member was given; and no step returns a set timestamp to null.
C39_StatusUpdate ==
    [][/\ \A i \in DOMAIN alert_store :
            /\ alert_store[i].reviewed_at # NoTimestamp
                 => alert_store'[i].reviewed_at # NoTimestamp
            /\ alert_store[i].contacted_at # NoTimestamp
                 => alert_store'[i].contacted_at # NoTimestamp
       /\ IsUpdated(sent') =>
            LET id == sent'.alert_id
                u == sent'.request
            IN IF sent'.response.status = 404
               THEN id \notin DOMAIN alert_store /\ alert_store' = alert_store
               ELSE /\ id \in DOMAIN alert_store
                    /\ DOMAIN alert_store' = DOMAIN alert_store
                    /\ \A i \in DOMAIN alert_store \ {id} : alert_store'[i] = alert_store[i]
                    /\ LET old == alert_store[id]
                           new == alert_store'[id]
                       IN /\ new.reviewed_at = IF u.status = "reviewed" THEN isoformat(now)
                                               ELSE old.reviewed_at
                          /\ new.contacted_at = IF u.status = "contacted" THEN isoformat(now)
                                                ELSE old.contacted_at
                          /\ IF u.note \in {"None", ""} /\ u.staff_member \in {"None", ""}
                             THEN new.staff_notes = old.staff_notes
                             ELSE /\ Len(new.staff_notes) = Len(old.staff_notes) + 1
                                  /\ SubSeq(new.staff_notes, 1, Len(old.staff_notes))
                                       = old.staff_notes
                                  /\ new.staff_notes[Len(new.staff_notes)].note = u.note
                                  /\ new.staff_notes[Len(new.staff_notes)].staff_member
                                       = u.staff_member
                          /\ new.id = old.id /\ new.created_at = old.created_at
                          /\ new.payload = old.payload /\ new.delivery = old.delivery
                          /\ sent'.response.alert = new]_vars

\* an alert reviewed earlier is marked contacted with a note: its reviewed_at is still
\* the earlier time
C39_Witness ==
    /\ IsUpdated(sent)
    /\ sent.response.status = 200
    /\ sent.request.status = "contacted"
    /\ sent.request.note = "called"
    /\ sent.response.alert.contacted_at = isoformat(now)
    /\ sent.response.alert.reviewed_at \notin {NoTimestamp, isoformat(now)}
    /\ sent.response.alert.staff_notes # <<>>
    /\ DOMAIN alert_store = {1, 2}

\* ------------------------------------------------- phone number normalization
\* A phone number is the sequence of its characters. Both send_sms keep the digits of
\* request.phone_number and put '1' before a number of ten digits.
MaxDigits == 12
MaxPasses == 2

\* str.isdigit() of one character
isdigit(c) == c \in {"0", "1", "2", "3", "4", "5", "6", "7", "8", "9"}

\* ''.join(c for c in phone_number if c.isdigit())
RECURSIVE join_digits(_)
join_digits(phone_number) ==
    IF phone_number = <<>> THEN <<>>
    ELSE (IF isdigit(Head(phone_number)) THEN <<Head(phone_number)>> ELSE <<>>)
         \o join_digits(Tail(phone_number))

\* a normalization that puts the country code before every number shorter than eleven
\* digits
vm_normalize_PrefixShort(phone_number) ==
    LET phone == join_digits(phone_number)
    IN IF Len(phone) <= 10 THEN <<"1">> \o phone ELSE phone

\* AgencyZoomExtractor.send_sms: normalized_phone
az_normalize(phone_number) ==
    LET normalized_phone == join_digits(phone_number)
    IN IF Len(normalized_phone) = 10 THEN <<"1">> \o normalized_phone
       ELSE IF Len(normalized_phone) = 11 /\ Head(normalized_phone) = "1"
            THEN normalized_phone
            ELSE normalized_phone

\* the VM service's send_sms: phone
vm_normalize(phone_number) ==
    LET phone == join_digits(phone_number)
    IN IF Len(phone) = 10 THEN <<"1">> \o phone ELSE phone

\* the numbers callers send: n digits, the first one given, written plain, with a plus
\* sign, with a dash after the area code, or with the area code in parentheses
PhoneFormats == {"plain", "plus", "dashed", "parens"}

PhoneInput(first, n, format) ==
    LET digits == [i \in 1..n |-> IF i = 1 THEN first ELSE "5"]
        area == SubSeq(digits, 1, IF n < 3 THEN n ELSE 3)
        rest == IF n < 4 THEN <<>> ELSE SubSeq(digits, 4, n)
    IN CASE format = "plain" -> digits
         [] format = "plus" -> <<"+">> \o digits
         [] format = "dashed" -> area \o <<"-">> \o rest
         [] format = "parens" -> <<"(">> \o area \o <<")", " ">> \o rest

PhoneInputs ==
    {PhoneInput(first, n, format) :
        first \in {"1", "2"}, n \in 0..MaxDigits, format \in PhoneFormats}

\* a number before it was normalized, and what each service makes of it when the result
\* of one pass is the phone_number of the next
PhoneCall(phone_number) ==
    [endpoint |-> "phone", phone_number |-> phone_number,
     normalized_phone |-> phone_number, phone |-> phone_number, passes |-> 0]

PhoneInit ==
    /\ now = 0
    /\ token_cache = clear_cache(<<>>)
    /\ lastOp = NoOp
    /\ prevOp = NoOp
    /\ creds = [k \in Keys |-> TRUE]
    /\ target = "agencyzoom"
    /\ alert_store = <<>>
    /\ pc = [r \in Requests |-> "idle"]
    /\ \E phone_number \in PhoneInputs :
         req = [r \in Requests |-> IF r = 1 THEN PhoneCall(phone_number) ELSE NoReq]
    /\ sent = NoReq
    /\ ext = Instances(NewDelphiProxy)
    /\ open = {}

normalize_phone(r) ==
    /\ req[r].endpoint = "phone"
    /\ req[r].passes < MaxPasses
    /\ req' = [req EXCEPT ![r].normalized_phone = az_normalize(@),
                          ![r].phone = vm_normalize(@),
                          ![r].passes = @ + 1]
    /\ UNCHANGED <<cacheVars, creds, target, alert_store, pc, sent, ext, open>>

PhoneNext == normalize_phone(1)

PhoneSpec == PhoneInit /\ [][PhoneNext]_vars

\* C40: the normalized number is the digits of the input in their order, with '1' before
\* them exactly when there are ten of them; a second pass changes nothing; and the two
\* services normalize every number to the same value.
C40_Normalization ==
    \A r \in Requests :
        (req[r].endpoint = "phone" /\ req[r].passes >= 1) =>
            LET digits == SelectSeq(req[r].phone_number, isdigit)
            IN /\ req[r].normalized_phone
                    = IF Len(digits) = 10 THEN <<"1">> \o digits ELSE digits
               /\ req[r].phone = req[r].normalized_phone

\* a ten-digit number written with punctuation got its country code, and kept it in
\* the second pass
C40_Witness ==
    /\ req[1].endpoint = "phone"
    /\ req[1].passes = 2
    /\ Len(req[1].phone_number) > 10
    /\ Len(SelectSeq(req[1].phone_number, isdigit)) = 10
    /\ Len(req[1].phone) = 11
    /\ Head(req[1].phone) = "1"
====
